---------------------------- MODULE Spec2Model ----------------------------
(***************************************************************************)
(* JobTracker: URL canonicalization, job-key derivation and the popup      *)
(* capture path over the chrome.storage job store.                         *)
(*                                                                         *)
(* Strings are sequences of one-character strings, so that includes,       *)
(* endsWith, slice, toLowerCase and the path patterns are computed on the  *)
(* characters as the JavaScript does.  A URL string is represented by the  *)
(* components the WHATWG parser splits it into (hostname, pathname, query  *)
(* pairs); a string that does not parse is kept as its text.               *)
(***************************************************************************)
EXTENDS Integers, Sequences, FiniteSets, TLC

VARIABLES
    url,          \* urlCanonicalizer: the input string u
    variant,      \* urlCanonicalizer: a second input u' derived from u
    edits,        \* how variant was derived from url
    canon,        \* results of the canonicalizeURL calls
    keys,         \* results of the generateJobKey calls
    jobs,         \* chrome.storage.local[STORAGE_KEY]: job_key -> record
    now,          \* clock read by new Date().toISOString()
    currentTab,   \* popup.js: currentTab (its url)
    existingJob,  \* popup.js: existingJob
    popup,        \* popup.js: position of the popup's handlers
    jobData,      \* popup.js/storage.js: record being saved by saveJob
    snapshot,     \* storage.js saveJob: jobs read by getAllJobs()
    outcome,      \* popup.js: what the last submit showed the user
    saves,        \* number of saveJob calls the popup has completed
    detected,     \* result of the detectSource call
    calls,        \* storage.js: the StorageService call each context runs
    started,      \* number of StorageService calls started so far
    history,      \* job keys of the saveJob calls completed and of the
                  \* deleteJob calls started so far
    tab,          \* background.js: URL of the tab's last completed load
    handlers,     \* background.js: the handleTabUpdate runs in progress
    action,       \* chrome.action: the tab's icon, badge text and colour
    loads,        \* number of loads the tab has completed
    document,     \* detector.js: the extension's elements in the page
    settings,     \* chrome.storage.local job_tracker_settings: the theme
    running,      \* detector.js: the runs of init and of the listeners
    events        \* number of content-script events so far

vars == <<url, variant, edits, canon, keys, jobs, now, currentTab,
          existingJob, popup, jobData, snapshot, outcome, saves, detected,
          calls, started, history, tab, handlers, action, loads,
          document, settings, running, events>>

urlVars == <<url, variant, edits, canon, keys>>
popupVars == <<jobs, now, currentTab, existingJob, popup, jobData, snapshot,
               outcome, saves>>
formVars == <<currentTab, existingJob, popup, jobData, snapshot, outcome,
              saves>>
storeVars == <<calls, started, history>>
tabVars == <<tab, handlers, action, loads>>
pageVars == <<document, settings, running, events>>
serviceVars == <<detected, storeVars, tabVars, pageVars>>

----------------------------------------------------------------------------
(* String primitives                                                       *)

Digits == {"0","1","2","3","4","5","6","7","8","9"}

\* Upper-case letter -> lower-case letter
LowerCaseOf ==
    "A" :> "a" @@ "B" :> "b" @@ "C" :> "c" @@ "D" :> "d" @@ "E" :> "e"
    @@ "F" :> "f" @@ "G" :> "g" @@ "H" :> "h" @@ "I" :> "i" @@ "J" :> "j"
    @@ "K" :> "k" @@ "L" :> "l" @@ "M" :> "m" @@ "N" :> "n" @@ "O" :> "o"
    @@ "P" :> "p" @@ "Q" :> "q" @@ "R" :> "r" @@ "S" :> "s" @@ "T" :> "t"
    @@ "U" :> "u" @@ "V" :> "v" @@ "W" :> "w" @@ "X" :> "x" @@ "Y" :> "y"
    @@ "Z" :> "z"

\* String.prototype.toLowerCase
toLowerCase(s) ==
    SubSeq([i \in 1..Len(s) |->
               IF s[i] \in DOMAIN LowerCaseOf THEN LowerCaseOf[s[i]] ELSE s[i]],
           1, Len(s))

\* String.prototype.includes
includes(s, needle) ==
    \E i \in 1..(Len(s) - Len(needle) + 1) :
        \A j \in 1..Len(needle) : s[i + j - 1] = needle[j]

\* String.prototype.endsWith
endsWith(s, suffix) ==
    /\ Len(s) >= Len(suffix)
    /\ SubSeq(s, Len(s) - Len(suffix) + 1, Len(s)) = suffix

\* String.prototype.slice(0, -1)
sliceDropLast(s) == SubSeq(s, 1, Len(s) - 1)

\* Array.prototype.join over an array of strings
RECURSIVE join(_, _)
join(parts, sep) ==
    IF Len(parts) = 0 THEN <<>>
    ELSE IF Len(parts) = 1 THEN parts[1]
    ELSE parts[1] \o sep \o join(Tail(parts), sep)

----------------------------------------------------------------------------
(* URL strings and the platform's URL object                               *)

\* A string handed to new URL(): a parseable http(s) URL, given by its
\* components as written (hostname in the writer's letter case)
UrlString(hostname, pathname, query) ==
    [ok |-> TRUE, text |-> <<>>, hostname |-> hostname,
     pathname |-> pathname, query |-> query]

\* A string that new URL() rejects
TextString(text) ==
    [ok |-> FALSE, text |-> text, hostname |-> <<>>,
     pathname |-> <<>>, query |-> <<>>]

\* Completion records: a normal return or an exception reaching the caller
Return(v) == [threw |-> FALSE, value |-> v]
ThrowString == [threw |-> TRUE, value |-> TextString(<<>>)]
ThrowKey == [threw |-> TRUE, value |-> <<>>]

\* new URL(url): throws TypeError on a string that does not parse; the
\* parser lower-cases the host of an http(s) URL
NewURL(u) ==
    IF u.ok
    THEN [threw |-> FALSE, hostname |-> toLowerCase(u.hostname),
          pathname |-> u.pathname, searchParams |-> u.query]
    ELSE [threw |-> TRUE, hostname |-> <<>>, pathname |-> <<>>,
          searchParams |-> <<>>]

\* URL.prototype.toString
toString(urlObj) ==
    UrlString(urlObj.hostname, urlObj.pathname, urlObj.searchParams)

\* Variant: only the first pair of that name is removed
deleteFirstOnly(params, name) ==
    IF \E i \in 1..Len(params) : params[i][1] = name
    THEN LET i == CHOOSE k \in 1..Len(params) :
                     /\ params[k][1] = name
                     /\ \A j \in 1..(k - 1) : params[j][1] # name
         IN  SubSeq(params, 1, i - 1) \o SubSeq(params, i + 1, Len(params))
    ELSE params

\* URLSearchParams.prototype.delete(name): removes every pair of that name
delete(params, name) == SelectSeq(params, LAMBDA p : p[1] # name)

\* URLSearchParams.prototype.get(name): value of the first pair of that
\* name; null (here the empty string, equally falsy) when there is none
get(params, name) ==
    IF \E i \in 1..Len(params) : params[i][1] = name
    THEN params[CHOOSE i \in 1..Len(params) :
                    /\ params[i][1] = name
                    /\ \A j \in 1..(i - 1) : params[j][1] # name][2]
    ELSE <<>>

\* Primary collation weight of the characters used in parameter names
\* (CLDR root order: punctuation, digits, letters; letter case is only a
\* tertiary difference)
PrimaryWeightOf ==
    "_" :> 1 @@ "-" :> 2 @@ "." :> 3 @@ "/" :> 4 @@ "0" :> 5
    @@ "1" :> 6 @@ "2" :> 7 @@ "3" :> 8 @@ "4" :> 9 @@ "5" :> 10
    @@ "6" :> 11 @@ "7" :> 12 @@ "8" :> 13 @@ "9" :> 14 @@ "a" :> 15
    @@ "b" :> 16 @@ "c" :> 17 @@ "d" :> 18 @@ "e" :> 19 @@ "f" :> 20
    @@ "g" :> 21 @@ "h" :> 22 @@ "i" :> 23 @@ "j" :> 24 @@ "k" :> 25
    @@ "l" :> 26 @@ "m" :> 27 @@ "n" :> 28 @@ "o" :> 29 @@ "p" :> 30
    @@ "q" :> 31 @@ "r" :> 32 @@ "s" :> 33 @@ "t" :> 34 @@ "u" :> 35
    @@ "v" :> 36 @@ "w" :> 37 @@ "x" :> 38 @@ "y" :> 39 @@ "z" :> 40

PrimaryWeight(c) ==
    LET lc == IF c \in DOMAIN LowerCaseOf THEN LowerCaseOf[c] ELSE c
    IN  IF lc \in DOMAIN PrimaryWeightOf THEN PrimaryWeightOf[lc] ELSE 0

TertiaryWeight(c) == IF c \in DOMAIN LowerCaseOf THEN 1 ELSE 0

\* Lexicographic comparison of two weight sequences: -1, 0 or 1
RECURSIVE CompareWeights(_, _)
CompareWeights(a, b) ==
    IF Len(a) = 0 /\ Len(b) = 0 THEN 0
    ELSE IF Len(a) = 0 THEN -1
    ELSE IF Len(b) = 0 THEN 1
    ELSE IF a[1] < b[1] THEN -1
    ELSE IF a[1] > b[1] THEN 1
    ELSE CompareWeights(Tail(a), Tail(b))

\* String.prototype.localeCompare: primary weights first, then letter case
localeCompare(a, b) ==
    LET p == CompareWeights([i \in 1..Len(a) |-> PrimaryWeight(a[i])],
                            [i \in 1..Len(b) |-> PrimaryWeight(b[i])])
    IN  IF p # 0 THEN p
        ELSE CompareWeights([i \in 1..Len(a) |-> TertiaryWeight(a[i])],
                            [i \in 1..Len(b) |-> TertiaryWeight(b[i])])

\* Insertion of entry e after every entry that does not sort after it
RECURSIVE InsertSorted(_, _)
InsertSorted(sorted, e) ==
    IF Len(sorted) = 0 THEN <<e>>
    ELSE IF localeCompare(sorted[Len(sorted)][1], e[1]) <= 0
         THEN Append(sorted, e)
         ELSE Append(InsertSorted(SubSeq(sorted, 1, Len(sorted) - 1), e),
                     sorted[Len(sorted)])

\* Variant: the entries are left in the order they came in
sortNothing(entries) == entries

\* Array.prototype.sort((a, b) => a[0].localeCompare(b[0])): a stable sort
RECURSIVE sort(_)
sort(entries) ==
    IF Len(entries) = 0 THEN <<>>
    ELSE InsertSorted(sort(SubSeq(entries, 1, Len(entries) - 1)),
                      entries[Len(entries)])

----------------------------------------------------------------------------
(* urlCanonicalizer.js                                                     *)

TRACKING_PARAMS == <<
    <<"u","t","m","_","s","o","u","r","c","e">>,   \* utm_source
    <<"u","t","m","_","m","e","d","i","u","m">>,   \* utm_medium
    <<"u","t","m","_","c","a","m","p","a","i","g","n">>,   \* utm_campaign
    <<"u","t","m","_","t","e","r","m">>,   \* utm_term
    <<"u","t","m","_","c","o","n","t","e","n","t">>,   \* utm_content
    <<"r","e","f">>,   \* ref
    <<"s","r","c">>,   \* src
    <<"r","e","f","I","d">>,   \* refId
    <<"t","r","k">>,   \* trk
    <<"t","r","a","c","k","i","n","g","I","d">>,   \* trackingId
    <<"c","a","m","p","a","i","g","n","I","d">>,   \* campaignId
    <<"f","b","c","l","i","d">>,   \* fbclid
    <<"g","c","l","i","d">>,   \* gclid
    <<"m","s","c","l","k","i","d">>,   \* msclkid
    <<"m","c","_","c","i","d">>,   \* mc_cid
    <<"m","c","_","e","i","d">>,   \* mc_eid
    <<"_","h","s","e","n","c">>,   \* _hsenc
    <<"_","h","s","m","i">>,   \* _hsmi
    <<"m","k","t","_","t","o","k">>    \* mkt_tok
>>

\* TRACKING_PARAMS.forEach(param => urlObj.searchParams.delete(param))
RECURSIVE RemoveTrackingParams(_, _)
RemoveTrackingParams(params, names) ==
    IF Len(names) = 0 THEN params
    ELSE RemoveTrackingParams(delete(params, names[1]), Tail(names))

\* Variant: every trailing slash is removed
StripTrailingSlash_Every(pathname) ==
    LET keep == {i \in 1..Len(pathname) : pathname[i] # "/"}
    IN  IF keep = {} THEN <<"/">>
        ELSE SubSeq(pathname, 1, CHOOSE i \in keep : \A j \in keep : j <= i)

\* The pathname after the trailing-slash rule
StripTrailingSlash(pathname) ==
    IF pathname # <<"/">> /\ endsWith(pathname, <<"/">>)
    THEN sliceDropLast(pathname)
    ELSE pathname

\* The try block of canonicalizeURL for a URL that parsed
CanonicalHref(urlObj) ==
    toString([hostname |-> toLowerCase(urlObj.hostname),
              pathname |-> StripTrailingSlash(urlObj.pathname),
              searchParams |->
                 sort(RemoveTrackingParams(urlObj.searchParams,
                                           TRACKING_PARAMS))])

\* Variant: the parse failure is not caught
canonicalizeURL_NoCatch(u) ==
    LET urlObj == NewURL(u)
    IN  IF urlObj.threw THEN ThrowString
        ELSE Return(CanonicalHref(urlObj))

canonicalizeURL(u) ==
    LET urlObj == NewURL(u)
    IN  IF urlObj.threw
        THEN Return(u)                       \* catch (e) { return url; }
        ELSE Return(CanonicalHref(urlObj))

\* Character classes of the path patterns: \d, [a-f0-9-] and [^\/]
IsDigit(c) == c \in Digits
IsHexOrDash(c) == c \in Digits \cup {"a","b","c","d","e","f","-"}
IsNotSlash(c) == c # "/"

\* Whether character c belongs to the class a pattern names
InClass(class, c) ==
    CASE class = "digit"     -> IsDigit(c)
      [] class = "hexOrDash" -> IsHexOrDash(c)
      [] class = "notSlash"  -> IsNotSlash(c)

\* s.match(/<lit>(<class>+)/)[1]: the leftmost place where lit is followed
\* by at least one character of the class, and the longest run of the class
\* from there; null (the empty string) when the pattern matches nowhere
match(s, lit, class) ==
    LET from(i) == i + Len(lit)
        starts == {i \in 1..Len(s) :
                      /\ from(i) <= Len(s)
                      /\ \A j \in 1..Len(lit) : s[i + j - 1] = lit[j]
                      /\ InClass(class, s[from(i)])}
    IN  IF starts = {} THEN <<>>
        ELSE LET i == CHOOSE k \in starts : \A j \in starts : k <= j
                 last == CHOOSE e \in from(i)..Len(s) :
                            /\ \A j \in from(i)..e : InClass(class, s[j])
                            /\ (e = Len(s) \/ ~InClass(class, s[e + 1]))
             IN  SubSeq(s, from(i), last)

\* One block of extractJobId per platform: the job ID this platform's rule
\* returns, or null (the empty string) when the block falls through
Greenhouse(hostname, pathname, params) ==
    IF includes(hostname, <<"g","r","e","e","n","h","o","u","s","e">>) \/ includes(hostname, <<"g","r","n","h",".","s","e">>)
    THEN LET ghJid == get(params, <<"g","h","_","j","i","d">>)
             m == match(pathname, <<"/","j","o","b","s","/">>, "digit")
         IN  IF ghJid # <<>> THEN <<"g","r","e","e","n","h","o","u","s","e","_">> \o ghJid
             ELSE IF m # <<>> THEN <<"g","r","e","e","n","h","o","u","s","e","_">> \o m
             ELSE <<>>
    ELSE <<>>

Lever(hostname, pathname, params) ==
    IF includes(hostname, <<"l","e","v","e","r",".","c","o">>)
    THEN LET m == match(pathname, <<"/","j","o","b","s","/">>, "hexOrDash")
         IN  IF m # <<>> THEN <<"l","e","v","e","r","_">> \o m ELSE <<>>
    ELSE <<>>

Workday(hostname, pathname, params) ==
    IF includes(hostname, <<"m","y","w","o","r","k","d","a","y">>) \/ includes(hostname, <<"w","o","r","k","d","a","y">>)
    THEN LET jobId == get(params, <<"j","o","b","I","d">>)
             m == match(pathname, <<"J","o","b","/">>, "notSlash")
         IN  IF jobId # <<>> THEN <<"w","o","r","k","d","a","y","_">> \o jobId
             ELSE IF m # <<>> THEN <<"w","o","r","k","d","a","y","_">> \o m
             ELSE <<>>
    ELSE <<>>

LinkedIn(hostname, pathname, params) ==
    IF includes(hostname, <<"l","i","n","k","e","d","i","n",".","c","o","m">>)
    THEN LET m == match(pathname, <<"/","j","o","b","s","/","v","i","e","w","/">>, "digit")
             currentJobId == get(params, <<"c","u","r","r","e","n","t","J","o","b","I","d">>)
         IN  IF m # <<>> THEN <<"l","i","n","k","e","d","i","n","_">> \o m
             ELSE IF currentJobId # <<>> THEN <<"l","i","n","k","e","d","i","n","_">> \o currentJobId
             ELSE <<>>
    ELSE <<>>

Indeed(hostname, pathname, params) ==
    IF includes(hostname, <<"i","n","d","e","e","d",".","c","o","m">>)
    THEN LET jk == get(params, <<"j","k">>)
         IN  IF jk # <<>> THEN <<"i","n","d","e","e","d","_">> \o jk ELSE <<>>
    ELSE <<>>

SmartRecruiters(hostname, pathname, params) ==
    IF includes(hostname, <<"s","m","a","r","t","r","e","c","r","u","i","t","e","r","s",".","c","o","m">>)
    THEN LET m == match(pathname, <<"/","j","o","b","s","/">>, "digit")
         IN  IF m # <<>> THEN <<"s","m","a","r","t","r","e","c","r","u","i","t","e","r","s","_">> \o m ELSE <<>>
    ELSE <<>>

Ashby(hostname, pathname, params) ==
    IF includes(hostname, <<"a","s","h","b","y","h","q",".","c","o","m">>)
    THEN LET m == match(pathname, <<"/","j","o","b","s","/">>, "hexOrDash")
         IN  IF m # <<>> THEN <<"a","s","h","b","y","_">> \o m ELSE <<>>
    ELSE <<>>

\* Variant: the Lever block placed before the Greenhouse block
PlatformRules_LeverFirst(hostname, pathname, params) ==
    << Lever(hostname, pathname, params),
       Greenhouse(hostname, pathname, params),
       Workday(hostname, pathname, params),
       LinkedIn(hostname, pathname, params),
       Indeed(hostname, pathname, params),
       SmartRecruiters(hostname, pathname, params),
       Ashby(hostname, pathname, params) >>

\* The blocks in the order extractJobId runs them
PlatformRules(hostname, pathname, params) ==
    << Greenhouse(hostname, pathname, params),
       Lever(hostname, pathname, params),
       Workday(hostname, pathname, params),
       LinkedIn(hostname, pathname, params),
       Indeed(hostname, pathname, params),
       SmartRecruiters(hostname, pathname, params),
       Ashby(hostname, pathname, params) >>

\* The first block that returns decides; `return null` when none does
FirstReturn(results) ==
    IF \E i \in 1..Len(results) : results[i] # <<>>
    THEN results[CHOOSE i \in 1..Len(results) :
                    /\ results[i] # <<>>
                    /\ \A j \in 1..(i - 1) : results[j] = <<>>]
    ELSE <<>>

\* extractJobId(url): "<platform>_<id>" or null (the empty string); a parse
\* failure is caught and gives null
extractJobId(u) ==
    LET urlObj == NewURL(u)
    IN  IF urlObj.threw THEN <<>>
        ELSE FirstReturn(PlatformRules(toLowerCase(urlObj.hostname),
                                       urlObj.pathname,
                                       urlObj.searchParams))

\* The hostname tests of the blocks of extractJobId
ResolverFragments ==
    { <<"g","r","e","e","n","h","o","u","s","e">>, <<"g","r","n","h",".","s","e">>, <<"l","e","v","e","r",".","c","o">>, <<"m","y","w","o","r","k","d","a","y">>, <<"w","o","r","k","d","a","y">>,
      <<"l","i","n","k","e","d","i","n",".","c","o","m">>, <<"i","n","d","e","e","d",".","c","o","m">>, <<"s","m","a","r","t","r","e","c","r","u","i","t","e","r","s",".","c","o","m">>,
      <<"a","s","h","b","y","h","q",".","c","o","m">> }

\* hashString(str).substring(0, 16): the first 16 hex digits of the SHA-256
\* digest.  The digest is taken to be collision-free on the inputs of the
\* model and is represented by a marker followed by its preimage.
hashString(str) == <<"sha256:">> \o str

\* Number.prototype.toString(16) of a byte
HexDigits ==
    <<"0","1","2","3","4","5","6","7","8","9","a","b","c","d","e","f">>
toString16(b) ==
    IF b < 16 THEN <<HexDigits[b + 1]>>
    ELSE <<HexDigits[(b \div 16) + 1], HexDigits[(b % 16) + 1]>>

\* String.prototype.padStart(targetLength, padString), one-character pad
padStart(s, targetLength, padString) ==
    IF Len(s) < targetLength
    THEN [i \in 1..(targetLength - Len(s)) |-> padString] \o s
    ELSE s

\* String.prototype.substring(start, end)
substring(s, start, end) ==
    SubSeq(s, start + 1, IF end < Len(s) THEN end ELSE Len(s))

\* hashArray.map(b => b.toString(16).padStart(2, '0')).join(''): the hex
\* string hashString returns for the bytes of a digest
hexString(hashArray) ==
    join([i \in 1..Len(hashArray) |->
             padStart(toString16(hashArray[i]), 2, "0")], <<>>)

\* hash.substring(0, 16): the digits generateJobKey puts after "hash_"
hashPrefix(hashArray) == substring(hexString(hashArray), 0, 16)

\* Variant: the fallback hashes the URL as given, query names included
generateJobKey_HashesRawUrl(u, metadata) ==
    LET jobId == extractJobId(u)
        urlObj == NewURL(u)
        names == [i \in 1..Len(urlObj.searchParams) |->
                     urlObj.searchParams[i][1]]
        hashInput == toLowerCase(join(<<urlObj.hostname, urlObj.pathname>>
                                        \o names
                                        \o <<metadata.title, metadata.company>>,
                                      <<"|">>))
    IN  IF jobId # <<>> THEN Return(jobId)
        ELSE IF urlObj.threw THEN ThrowKey
        ELSE Return(<<"h","a","s","h","_">> \o hashString(hashInput))

\* Variant: the title is appended to an extracted platform ID
generateJobKey_IdWithTitle(u, metadata) ==
    LET jobId == extractJobId(u)
        urlObj == NewURL(canonicalizeURL(u).value)
        hashInput == toLowerCase(join(<<urlObj.hostname, urlObj.pathname,
                                        metadata.title, metadata.company>>,
                                      <<"|">>))
    IN  IF jobId # <<>> THEN Return(jobId \o <<"_">> \o metadata.title)
        ELSE IF urlObj.threw THEN ThrowKey
        ELSE Return(<<"h","a","s","h","_">> \o hashString(hashInput))

\* Variant: the company is left out of the hash input
generateJobKey_NoCompany(u, metadata) ==
    LET jobId == extractJobId(u)
        urlObj == NewURL(canonicalizeURL(u).value)
        hashInput == toLowerCase(join(<<urlObj.hostname, urlObj.pathname,
                                        metadata.title>>,
                                      <<"|">>))
    IN  IF jobId # <<>> THEN Return(jobId)
        ELSE IF urlObj.threw THEN ThrowKey
        ELSE Return(<<"h","a","s","h","_">> \o hashString(hashInput))

\* Variant: a platform hostname without an ID is an error
generateJobKey_ErrorsOnPlatformHost(u, metadata) ==
    LET jobId == extractJobId(u)
        urlObj == NewURL(canonicalizeURL(u).value)
        hashInput == toLowerCase(join(<<urlObj.hostname, urlObj.pathname,
                                        metadata.title, metadata.company>>,
                                      <<"|">>))
    IN  IF jobId # <<>> THEN Return(jobId)
        ELSE IF urlObj.threw THEN ThrowKey
        ELSE IF includes(urlObj.hostname, <<"l","e","v","e","r",".","c","o">>)
                \/ includes(urlObj.hostname, <<"g","r","e","e","n","h","o","u","s","e">>) THEN ThrowKey
        ELSE Return(<<"h","a","s","h","_">> \o hashString(hashInput))

\* generateJobKey(url, metadata); new URL(canonicalUrl) is outside any try
generateJobKey(u, metadata) ==
    LET jobId == extractJobId(u)
        canonicalUrl == canonicalizeURL(u).value
        urlObj == NewURL(canonicalUrl)
        hashInput == toLowerCase(join(<<urlObj.hostname, urlObj.pathname,
                                        metadata.title, metadata.company>>,
                                      <<"|">>))
    IN  IF jobId # <<>> THEN Return(jobId)
        ELSE IF urlObj.threw THEN ThrowKey
        ELSE Return(<<"h","a","s","h","_">> \o hashString(hashInput))

\* Variant: the Ashby tag spelled as the hostname fragment
SourceOf_AshbyHq(hostname) ==
    IF includes(hostname, <<"l","i","n","k","e","d","i","n",".","c","o","m">>) THEN <<"l","i","n","k","e","d","i","n">>
    ELSE IF includes(hostname, <<"g","r","e","e","n","h","o","u","s","e">>)
            \/ includes(hostname, <<"g","r","n","h",".","s","e">>) THEN <<"g","r","e","e","n","h","o","u","s","e">>
    ELSE IF includes(hostname, <<"l","e","v","e","r",".","c","o">>) THEN <<"l","e","v","e","r">>
    ELSE IF includes(hostname, <<"w","o","r","k","d","a","y">>) THEN <<"w","o","r","k","d","a","y">>
    ELSE IF includes(hostname, <<"i","n","d","e","e","d",".","c","o","m">>) THEN <<"i","n","d","e","e","d">>
    ELSE IF includes(hostname, <<"s","m","a","r","t","r","e","c","r","u","i","t","e","r","s",".","c","o","m">>) THEN <<"s","m","a","r","t","r","e","c","r","u","i","t","e","r","s">>
    ELSE IF includes(hostname, <<"a","s","h","b","y","h","q",".","c","o","m">>) THEN <<"a","s","h","b","y","h","q">>
    ELSE IF includes(hostname, <<"b","a","m","b","o","o","h","r",".","c","o","m">>) THEN <<"b","a","m","b","o","o","h","r">>
    ELSE IF includes(hostname, <<"p","a","y","c","o","m","o","n","l","i","n","e",".","n","e","t">>) THEN <<"p","a","y","c","o","m">>
    ELSE IF includes(hostname, <<"i","c","i","m","s",".","c","o","m">>) THEN <<"i","c","i","m","s">>
    ELSE <<"m","a","n","u","a","l">>

\* The platform tag of a hostname: the first test of detectSource it passes
SourceOf(hostname) ==
    IF includes(hostname, <<"l","i","n","k","e","d","i","n",".","c","o","m">>) THEN <<"l","i","n","k","e","d","i","n">>
    ELSE IF includes(hostname, <<"g","r","e","e","n","h","o","u","s","e">>)
            \/ includes(hostname, <<"g","r","n","h",".","s","e">>) THEN <<"g","r","e","e","n","h","o","u","s","e">>
    ELSE IF includes(hostname, <<"l","e","v","e","r",".","c","o">>) THEN <<"l","e","v","e","r">>
    ELSE IF includes(hostname, <<"w","o","r","k","d","a","y">>) THEN <<"w","o","r","k","d","a","y">>
    ELSE IF includes(hostname, <<"i","n","d","e","e","d",".","c","o","m">>) THEN <<"i","n","d","e","e","d">>
    ELSE IF includes(hostname, <<"s","m","a","r","t","r","e","c","r","u","i","t","e","r","s",".","c","o","m">>) THEN <<"s","m","a","r","t","r","e","c","r","u","i","t","e","r","s">>
    ELSE IF includes(hostname, <<"a","s","h","b","y","h","q",".","c","o","m">>) THEN <<"a","s","h","b","y">>
    ELSE IF includes(hostname, <<"b","a","m","b","o","o","h","r",".","c","o","m">>) THEN <<"b","a","m","b","o","o","h","r">>
    ELSE IF includes(hostname, <<"p","a","y","c","o","m","o","n","l","i","n","e",".","n","e","t">>) THEN <<"p","a","y","c","o","m">>
    ELSE IF includes(hostname, <<"i","c","i","m","s",".","c","o","m">>) THEN <<"i","c","i","m","s">>
    ELSE <<"m","a","n","u","a","l">>

\* Variant: the parse failure is not caught
detectSource_NoCatch(u) ==
    LET urlObj == NewURL(u)
    IN  IF urlObj.threw THEN ThrowKey
        ELSE Return(SourceOf(toLowerCase(urlObj.hostname)))

\* detectSource(url): the tag, or 'manual' from the catch block
detectSource(u) ==
    LET urlObj == NewURL(u)
    IN  IF urlObj.threw THEN Return(<<"m","a","n","u","a","l">>)
        ELSE Return(SourceOf(toLowerCase(urlObj.hostname)))

----------------------------------------------------------------------------
(* Inputs of the URL functions                                             *)

\* Longest query string, in parameters, of a URL given to canonicalizeURL
MaxParams == 3
\* Longest query string, in parameters, of a URL given to generateJobKey
\* before tracking parameters are added to it
MaxKeyParams == 1

Hostnames ==
    { <<"j","o","b","s",".","l","e","v","e","r",".","c","o">>,
      <<"b","o","a","r","d","s",".","g","r","e","e","n","h","o","u","s","e",".","i","o">>,
      <<"g","r","e","e","n","h","o","u","s","e",".","l","e","v","e","r",".","c","o">>,
      <<"E","x","a","m","p","l","e",".","c","o","m">> }

Pathnames ==
    { <<"/">>,
      <<"/","a","c","m","e","/","a","b","c","d","-","1","2","3","4","-","e","f","5","6">>,
      <<"/","a","c","m","e","/","j","o","b","s","/","4","5","2","1">>,
      <<"/","a","c","m","e","/","j","o","b","s","/","4","5","2","1","/">>,
      <<"/","j","o","b","s","/","a","b","-","1","2">>,
      <<"/","a","/","/">> }

\* name=value pairs a query string is made of
QueryPairs ==
    { <<<<"g","h","_","j","i","d">>, <<"4","5","2","1">>>>,
      <<<<"g","h","_","j","i","d">>, <<>>>>,
      <<<<"b">>, <<"1">>>>,
      <<<<"u","t","m","_","s","o","u","r","c","e">>, <<"l","i","n","k","e","d","i","n">>>> }

\* Deny-listed parameters added to a URL as tracking noise
NoisePairs ==
    { <<<<"u","t","m","_","s","o","u","r","c","e">>, <<"l","i","n","k","e","d","i","n">>>>,
      <<<<"r","e","f">>, <<"b">>>> }

Queries(n) == UNION {[1..k -> QueryPairs] : k \in 0..n}

\* Inputs of canonicalizeURL: long queries on a few hosts and paths
CanonUrls ==
    {UrlString(h, p, q) :
        h \in {<<"E","x","a","m","p","l","e",".","c","o","m">>, <<"j","o","b","s",".","l","e","v","e","r",".","c","o">>},
        p \in {<<"/">>, <<"/","a","c","m","e","/","j","o","b","s","/","4","5","2","1">>, <<"/","a","c","m","e","/","j","o","b","s","/","4","5","2","1","/">>, <<"/","a","/","/">>,
                 <<"/","A","c","m","e","/","J","o","b","s","/">>},
        q \in Queries(MaxParams)}

\* Inputs of generateJobKey: every host and path, short queries
KeyUrls ==
    {UrlString(h, p, q) :
        h \in Hostnames, p \in Pathnames, q \in Queries(MaxKeyParams)}

\* Strings that new URL() rejects
Texts == { TextString(<<"n","o","t"," ","a"," ","u","r","l">>), TextString(<<>>) }

Titles == { <<>>, <<"E","n","g","i","n","e","e","r">>, <<"e","n","g","i","n","e","e","r">> }
Companies == { <<>>, <<"A","c","m","e">> }
Metadata == [title : Titles, company : Companies]

\* Metadata that differs from m in the title only or in the company only
OneFieldChanged(m) ==
    {[m EXCEPT !.title = t] : t \in Titles \ {m.title}}
        \cup {[m EXCEPT !.company = c] : c \in Companies \ {m.company}}

NoString == TextString(<<>>)
NoMetadata == [title |-> <<>>, company |-> <<>>]
NotCanonicalized ==
    [called |-> FALSE, of_url |-> Return(NoString),
     of_variant |-> Return(NoString), twice |-> Return(NoString)]
NoKeys ==
    [called |-> FALSE, metadata |-> NoMetadata, metadata2 |-> NoMetadata,
     of_url |-> ThrowKey, of_variant |-> ThrowKey, of_metadata2 |-> ThrowKey,
     of_canonical |-> ThrowKey, digits |-> <<>>]

\* Digests crypto.subtle.digest('SHA-256', data) can return: 32 bytes
Digests ==
    { [i \in 1..32 |-> 0], [i \in 1..32 |-> 255],
      [i \in 1..32 |-> (i * 37) % 256] }

\* The popup and the store at rest
PopupIdle ==
    /\ jobs = <<>>
    /\ now = 1
    /\ currentTab = NoString
    /\ existingJob = <<>>
    /\ popup = "closed"
    /\ jobData = <<>>
    /\ snapshot = <<>>
    /\ outcome = "none"
    /\ saves = 0

\* The URL functions not called
UrlIdle ==
    /\ url = NoString
    /\ variant = NoString
    /\ edits = "none"
    /\ canon = NotCanonicalized
    /\ keys = NoKeys

\* Extension contexts that call StorageService at the same time (popup,
\* background worker, content script, dashboard page)
Contexts == {1, 2}

\* A context that has no StorageService call in progress
NoCall ==
    [op |-> "none", pc |-> "idle", jobKey |-> <<>>, data |-> <<>>,
     store |-> <<>>, existed |-> FALSE, wrote |-> FALSE,
     returned |-> <<>>, removed |-> FALSE]

\* handleTabUpdate runs that can be in progress for the tab at one time
Slots == {1, 2}

\* No handleTabUpdate run in this slot
NoHandler ==
    [pc |-> "idle", url |-> TextString(<<>>), job |-> <<>>, data |-> <<>>,
     store |-> <<>>]

\* The toolbar button of a tab nothing was set for: icons/icon*.png, no badge
DefaultAction == [icon |-> "default", badge |-> "", color |-> "none"]

\* detectSource not called
NotDetected == [called |-> FALSE, result |-> ThrowKey]

\* The other surfaces at rest
\* Most content-script events (page load, visibility changes, messages) in
\* one run
MaxEvents == 3

\* The runs of init and of the listeners of detector.js
Runs == 1..MaxEvents

\* A run that has not started
NoRun == [kind |-> "none", pc |-> "idle", job |-> <<>>]

\* The page before the content script has added anything: the elements
\* with id job-tracker-status-badge in document order, and whether the
\* element with id job-tracker-float-btn is present
EmptyDocument == [badges |-> <<>>, floatBtn |-> FALSE]

ServicesIdle ==
    /\ detected = NotDetected
    /\ calls = [c \in Contexts |-> NoCall]
    /\ started = 0
    /\ history = [saved |-> {}, deleted |-> {}]
    /\ tab = NoString
    /\ handlers = [h \in Slots |-> NoHandler]
    /\ action = DefaultAction
    /\ loads = 0
    /\ document = EmptyDocument
    /\ settings = "light"
    /\ running = [r \in Runs |-> NoRun]
    /\ events = 0

InitCanon ==
    /\ url \in CanonUrls \cup Texts
    /\ variant = url
    /\ edits = "none"
    /\ canon = NotCanonicalized
    /\ keys = NoKeys
    /\ PopupIdle
    /\ ServicesIdle

InitKey ==
    /\ url \in KeyUrls \cup Texts
    /\ variant = url
    /\ edits = "none"
    /\ canon = NotCanonicalized
    /\ keys = NoKeys
    /\ PopupIdle
    /\ ServicesIdle

\* u' = u with one more deny-listed parameter at the end of its query
AppendTrackingParam(pair) ==
    /\ ~canon.called /\ ~keys.called
    /\ variant.ok
    /\ edits \in {"none", "tracking"}
    /\ Len(variant.query) < MaxParams
    /\ variant' = [variant EXCEPT !.query = Append(@, pair)]
    /\ edits' = "tracking"
    /\ UNCHANGED <<url, canon, keys>>
    /\ UNCHANGED <<popupVars, serviceVars>>

\* u' = u with two neighbouring query parameters exchanged
PermuteParams(i) ==
    /\ ~canon.called /\ ~keys.called
    /\ variant.ok
    /\ edits \in {"none", "permute"}
    /\ i \in 1..(Len(variant.query) - 1)
    /\ variant.query[i] # variant.query[i + 1]
    /\ variant' = [variant EXCEPT !.query =
                      [@ EXCEPT ![i] = variant.query[i + 1],
                                ![i + 1] = variant.query[i]]]
    /\ edits' = "permute"
    /\ UNCHANGED <<url, canon, keys>>
    /\ UNCHANGED <<popupVars, serviceVars>>

\* canonicalizeURL applied to u, to u' and to its own result
Canonicalize ==
    /\ ~canon.called /\ ~keys.called
    /\ canon' = [called |-> TRUE,
                 of_url |-> canonicalizeURL(url),
                 of_variant |-> canonicalizeURL(variant),
                 twice |-> canonicalizeURL(canonicalizeURL(url).value)]
    /\ UNCHANGED <<url, variant, edits, keys>>
    /\ UNCHANGED <<popupVars, serviceVars>>

\* generateJobKey applied to (u, m), (u', m), (u, m2) and to the canonical
\* form of u with m.  One thing is varied at a time: the metadata differ
\* only when the URLs do not.  The key carries the hash input in place of
\* the digest; digits holds what hashString and substring make of the
\* digest bytes.
GenerateKey(m, m2) ==
    /\ ~canon.called /\ ~keys.called
    /\ m2 \in (IF edits = "none" THEN OneFieldChanged(m) ELSE {m})
    /\ \E hashArray \in Digests :
          keys' = [called |-> TRUE, metadata |-> m, metadata2 |-> m2,
                   of_url |-> generateJobKey(url, m),
                   of_variant |-> generateJobKey(variant, m),
                   of_metadata2 |-> generateJobKey(url, m2),
                   of_canonical |->
                       generateJobKey(canonicalizeURL(url).value, m),
                   digits |-> hashPrefix(hashArray)]
    /\ UNCHANGED <<url, variant, edits, canon>>
    /\ UNCHANGED <<popupVars, serviceVars>>

NextCanon ==
    \/ \E pair \in NoisePairs : AppendTrackingParam(pair)
    \/ \E i \in 1..MaxParams : PermuteParams(i)
    \/ Canonicalize

NextKey ==
    \/ \E pair \in NoisePairs : AppendTrackingParam(pair)
    \/ \E m \in Metadata : \E m2 \in Metadata : GenerateKey(m, m2)

SpecCanon == InitCanon /\ [][NextCanon]_vars
SpecKey == InitKey /\ [][NextKey]_vars

----------------------------------------------------------------------------
(* storage.js: the job store                                               *)
(*                                                                         *)
(* chrome.storage.local[STORAGE_KEY] is an object keyed by job_key; it is  *)
(* kept as the sequence of its values in property (insertion) order, the   *)
(* order Object.values and Array.prototype.find go through.  A timestamp   *)
(* is the clock value it was taken at; 0 stands for an absent field.  The  *)
(* clock moves on whenever it is read, so that two timestamps taken at     *)
(* different steps can be told apart.                                      *)

\* Most saveJob calls completed by the popup in one run
MaxSaves == 2

\* Index of the record stored under jobKey, 0 when there is none
IndexOf(store, jobKey) ==
    IF \E i \in 1..Len(store) : store[i].job_key = jobKey
    THEN CHOOSE i \in 1..Len(store) : store[i].job_key = jobKey
    ELSE 0

\* jobs[job.job_key] = job
Put(store, job) ==
    IF IndexOf(store, job.job_key) = 0
    THEN Append(store, job)
    ELSE [store EXCEPT ![IndexOf(store, job.job_key)] = job]

\* The job saveJob stores: { ...jobData, updated_at, created_at }
Stamped(data, timestamp) ==
    [data EXCEPT !.updated_at = timestamp,
                 !.created_at = IF data.created_at # 0 THEN data.created_at
                                ELSE timestamp]

\* StorageService.getJob(jobKey): the record or null (the empty sequence)
getJob(store, jobKey) ==
    IF IndexOf(store, jobKey) = 0 THEN <<>>
    ELSE <<store[IndexOf(store, jobKey)]>>

\* StorageService.findJobByURL(url): the first record, in property order,
\* whose canonical_url is the canonical form of url; null when none is
findJobByURL(store, u) ==
    LET canonicalUrl == canonicalizeURL(u).value
        hits == {i \in 1..Len(store) : store[i].canonical_url = canonicalUrl}
    IN  IF hits = {} THEN <<>>
        ELSE <<store[CHOOSE i \in hits : \A j \in hits : i <= j]>>

----------------------------------------------------------------------------
(* popup.js                                                                *)

Statuses == {"interested", "applied", "interviewing", "offer", "rejected"}

\* Pages the popup is opened on
PageUrls ==
    { UrlString(<<"j","o","b","s",".","l","e","v","e","r",".","c","o">>, <<"/","a","c","m","e","/","a","b","c","d","-","1","2","3","4","-","e","f","5","6">>, <<>>),
      UrlString(<<"b","o","a","r","d","s",".","g","r","e","e","n","h","o","u","s","e",".","i","o">>, <<"/","a","c","m","e","/","j","o","b","s","/","4","5","2","1">>,
                << <<<<"g","h","_","j","i","d">>, <<"4","5","2","1">>>> >>),
      UrlString(<<"b","o","a","r","d","s",".","g","r","e","e","n","h","o","u","s","e",".","i","o">>, <<"/","a","c","m","e","/","j","o","b","s","/","4","5","2","1">>,
                << <<<<"g","h","_","j","i","d">>, <<"4","5","2","1">>>>,
                   <<<<"u","t","m","_","s","o","u","r","c","e">>, <<"l","i","n","k","e","d","i","n">>>> >>),
      UrlString(<<"b","o","a","r","d","s",".","g","r","e","e","n","h","o","u","s","e",".","i","o">>, <<"/","a","c","m","e","/","j","o","b","s","/","4","5","2","1">>, <<>>),
      UrlString(<<"E","x","a","m","p","l","e",".","c","o","m">>, <<"/","a","/","/">>, <<>>),
      TextString(<<"n","o","t"," ","a"," ","u","r","l">>) }

\* Values typed into the form (trimmed); status comes from the select box
FormCompanies == { <<>>, <<"A","c","m","e">>, <<"G","l","o","b","e","x">> }
FormTitles == { <<>>, <<"E","n","g","i","n","e","e","r">>, <<"e","n","g","i","n","e","e","r">> }
FormStatuses == {"interested", "applied"}

Init ==
    /\ UrlIdle
    /\ PopupIdle
    /\ ServicesIdle

\* DOMContentLoaded: the active tab is read and looked up in the store
PopupOpen(tabUrl) ==
    /\ popup = "closed"
    /\ currentTab' = tabUrl
    /\ existingJob' = findJobByURL(jobs, tabUrl)
    /\ popup' = "form"
    /\ outcome' = "none"
    /\ UNCHANGED <<jobs, now, jobData, snapshot, saves>>
    /\ UNCHANGED <<urlVars, serviceVars>>

\* The job data handleFormSubmit prepares, applied_at included
FormJobData(jobKey, company, title, status) ==
    [job_key |-> jobKey,
     canonical_url |-> canonicalizeURL(currentTab).value,
     original_url |-> currentTab,
     source |-> detectSource(currentTab).value,
     company |-> company,
     title |-> title,
     location |-> <<>>,
     status |-> status,
     notes |-> <<>>,
     tags |-> <<>>,
     applied_at |->
        IF status = "applied" /\ existingJob # <<>>
           /\ existingJob[1].status # "applied"
        THEN now
        ELSE IF status = "applied" /\ existingJob = <<>> THEN now
        ELSE IF existingJob # <<>> /\ existingJob[1].applied_at # 0
             THEN existingJob[1].applied_at
        ELSE 0,
     created_at |-> 0,
     updated_at |-> 0,
     last_seen_at |-> 0]

\* handleFormSubmit up to the call of StorageService.saveJob
HandleFormSubmit(company, title, status) ==
    /\ popup = "form"
    /\ saves < MaxSaves
    /\ LET key == generateJobKey(currentTab, [title |-> title,
                                              company |-> company])
       IN  IF company = <<>> \/ title = <<>>
           THEN \* alert('Company and Title are required'); return
                /\ outcome' = "required"
                /\ UNCHANGED <<popup, jobData>>
           ELSE IF key.threw
           THEN \* catch (error): alert('Error saving job. Please try again.')
                /\ outcome' = "error"
                /\ UNCHANGED <<popup, jobData>>
           ELSE /\ jobData' = <<FormJobData(key.value, company, title, status)>>
                /\ popup' = "saveJob"
                /\ outcome' = "none"
    /\ now' = IF popup' = "saveJob" THEN now + 1 ELSE now
    /\ UNCHANGED <<jobs, currentTab, existingJob, snapshot, saves>>
    /\ UNCHANGED <<urlVars, serviceVars>>

\* saveJob: const jobs = await this.getAllJobs(); the job is stamped
SaveJobRead ==
    /\ popup = "saveJob"
    /\ snapshot' = jobs
    /\ jobData' = <<Stamped(jobData[1], now)>>
    /\ popup' = "set"
    /\ now' = now + 1
    /\ UNCHANGED <<jobs, currentTab, existingJob, outcome, saves>>
    /\ UNCHANGED <<urlVars, serviceVars>>

\* saveJob: jobs[job.job_key] = job; await chrome.storage.local.set(...);
\* handleFormSubmit then shows the success message
SaveJobWrite ==
    /\ popup = "set"
    /\ jobs' = Put(snapshot, jobData[1])
    /\ snapshot' = <<>>
    /\ popup' = "saved"
    /\ outcome' = "saved"
    /\ saves' = saves + 1
    /\ UNCHANGED <<now, currentTab, existingJob, jobData>>
    /\ UNCHANGED <<urlVars, serviceVars>>

\* window.close(), by the timer after a save or by the user
PopupClose ==
    /\ popup \in {"form", "saved"}
    /\ popup' = "closed"
    /\ currentTab' = NoString
    /\ existingJob' = <<>>
    /\ jobData' = <<>>
    /\ outcome' = "none"
    /\ UNCHANGED <<jobs, now, snapshot, saves>>
    /\ UNCHANGED <<urlVars, serviceVars>>

Next ==
    \/ \E tabUrl \in PageUrls : PopupOpen(tabUrl)
    \/ \E company \in FormCompanies, title \in FormTitles,
          status \in FormStatuses : HandleFormSubmit(company, title, status)
    \/ SaveJobRead
    \/ SaveJobWrite
    \/ PopupClose

Spec == Init /\ [][Next]_vars

----------------------------------------------------------------------------
(* Inputs of detectSource                                                  *)

SourceHostnames ==
    { <<"w","w","w",".","l","i","n","k","e","d","i","n",".","c","o","m">>, <<"W","W","W",".","L","i","n","k","e","d","I","n",".","c","o","m">>, <<"e","x","a","m","p","l","e",".","c","o","m">>,
      <<"b","o","a","r","d","s",".","g","r","e","e","n","h","o","u","s","e",".","i","o">>, <<"g","r","n","h",".","s","e">>, <<"j","o","b","s",".","l","e","v","e","r",".","c","o">>,
      <<"g","r","e","e","n","h","o","u","s","e",".","l","e","v","e","r",".","c","o">>, <<"a","c","m","e",".","w","d","5",".","m","y","w","o","r","k","d","a","y","j","o","b","s",".","c","o","m">>,
      <<"w","w","w",".","i","n","d","e","e","d",".","c","o","m">>, <<"j","o","b","s",".","s","m","a","r","t","r","e","c","r","u","i","t","e","r","s",".","c","o","m">>,
      <<"j","o","b","s",".","a","s","h","b","y","h","q",".","c","o","m">>, <<"a","c","m","e",".","b","a","m","b","o","o","h","r",".","c","o","m">>,
      <<"w","w","w",".","p","a","y","c","o","m","o","n","l","i","n","e",".","n","e","t">>, <<"c","a","r","e","e","r","s","-","a","c","m","e",".","i","c","i","m","s",".","c","o","m">>,
      <<"l","i","n","k","e","d","i","n",".","e","x","a","m","p","l","e",".","o","r","g">> }

SourcePathnames ==
    { <<"/">>, <<"/","c","a","r","e","e","r","s","/","4","2">>, <<"/","j","o","b","s","/","v","i","e","w","/","9","8","7","6","5">>, <<"/","a","c","m","e","/","j","o","b","s","/","4","5","2","1">>,
      <<"/","j","o","b","s","/","a","b","-","1","2">> }

SourceUrls ==
    {UrlString(h, p, <<>>) : h \in SourceHostnames, p \in SourcePathnames}

InitSource ==
    /\ url \in SourceUrls \cup Texts
    /\ variant = url
    /\ edits = "none"
    /\ canon = NotCanonicalized
    /\ keys = NoKeys
    /\ PopupIdle
    /\ ServicesIdle

\* detectSource applied to u
DetectSource ==
    /\ ~detected.called
    /\ detected' = [called |-> TRUE, result |-> detectSource(url)]
    /\ UNCHANGED <<urlVars, popupVars, storeVars, tabVars, pageVars>>

NextSource == DetectSource

SpecSource == InitSource /\ [][NextSource]_vars

----------------------------------------------------------------------------
(* storage.js: StorageService calls made by several contexts at once       *)
(*                                                                         *)
(* Every method awaits chrome.storage.local.get before it does anything    *)
(* else, and the writing methods later await chrome.storage.local.set with *)
(* the whole jobs object.  A call is issued at the step of its first read; *)
(* the steps of calls of different contexts interleave at the awaits.      *)

\* Most StorageService calls started in one run
MaxCalls == 3

\* delete jobs[jobKey]
Remove(store, jobKey) == SelectSeq(store, LAMBDA job : job.job_key # jobKey)

\* Postings the calls are about
Postings ==
    { UrlString(<<"b","o","a","r","d","s",".","g","r","e","e","n","h","o","u","s","e",".","i","o">>, <<"/","a","c","m","e","/","j","o","b","s","/","4","5","2","1">>, <<>>),
      UrlString(<<"j","o","b","s",".","l","e","v","e","r",".","c","o">>, <<"/","j","o","b","s","/","a","b","-","1","2">>,
                << <<<<"u","t","m","_","s","o","u","r","c","e">>, <<"x">>>> >>) }

PostingKey(u) ==
    generateJobKey(u, [title |-> <<"E","n","g","i","n","e","e","r">>, company |-> <<"A","c","m","e">>]).value

PostingKeys == {PostingKey(u) : u \in Postings}

\* Variant: the page URL is stored as it is in both URL fields
NewJobData_RawUrl(u, status, t) ==
    [job_key |-> PostingKey(u),
     canonical_url |-> u,
     original_url |-> u,
     source |-> detectSource(u).value,
     company |-> <<"A","c","m","e">>,
     title |-> <<"E","n","g","i","n","e","e","r">>,
     location |-> <<>>,
     status |-> status,
     notes |-> <<>>,
     tags |-> <<>>,
     applied_at |-> IF status = "applied" THEN t ELSE 0,
     created_at |-> 0,
     updated_at |-> 0,
     last_seen_at |-> 0]

\* The job data a first capture of posting u hands to saveJob at time t
NewJobData(u, status, t) ==
    [job_key |-> PostingKey(u),
     canonical_url |-> canonicalizeURL(u).value,
     original_url |-> u,
     source |-> detectSource(u).value,
     company |-> <<"A","c","m","e">>,
     title |-> <<"E","n","g","i","n","e","e","r">>,
     location |-> <<>>,
     status |-> status,
     notes |-> <<>>,
     tags |-> <<>>,
     applied_at |-> IF status = "applied" THEN t ELSE 0,
     created_at |-> 0,
     updated_at |-> 0,
     last_seen_at |-> 0]

\* Variant: deleteJob without the test of jobs[jobKey]
deleteJob_NoCheck(store, jobKey) ==
    [returns |-> TRUE, set |-> <<Remove(store, jobKey)>>]

\* StorageService.deleteJob on the jobs object it has read: what it returns
\* and the jobs object it goes on to set, if any
deleteJob(store, jobKey) ==
    IF getJob(store, jobKey) = <<>>
    THEN [returns |-> FALSE, set |-> <<>>]
    ELSE [returns |-> TRUE, set |-> <<Remove(store, jobKey)>>]

\* StorageService.updateJobStatus after getJob: null, or the job data it
\* hands to saveJob; t is the clock
updateJobStatus(job, status, t) ==
    IF job = <<>> THEN <<>>
    ELSE << [job[1] EXCEPT
               !.status = status,
               !.updated_at = t,
               !.applied_at = IF status = "applied" /\ job[1].applied_at = 0
                              THEN t + 1 ELSE @] >>

\* StorageService.updateLastSeen after getJob: null, or the job data it
\* hands to saveJob
updateLastSeen(job, t) ==
    IF job = <<>> THEN <<>>
    ELSE << [job[1] EXCEPT !.last_seen_at = t] >>

\* The title typed into the edit modal of the dashboard
EditedTitle == <<"S","t","a","f","f"," ","E","n","g","i","n","e","e","r">>

\* handleEditSubmit of the dashboard after getJob: null ('Job not found'),
\* or { ...job, ...updates }, the job data it hands to saveJob
handleEditSubmit(job, title, status, t) ==
    IF job = <<>> THEN <<>>
    ELSE << [job[1] EXCEPT
               !.title = title,
               !.status = status,
               !.applied_at = IF status = "applied" /\ job[1].status # "applied"
                                 /\ job[1].applied_at = 0
                              THEN t ELSE @] >>

\* A context is free to make its next call
Free(c) ==
    /\ calls[c].pc \in {"idle", "done"}
    /\ started < MaxCalls

\* saveJob(jobData) up to the await of chrome.storage.local.set
SaveJob(c, u, status) ==
    /\ Free(c)
    /\ LET job == Stamped(NewJobData(u, status, now), now + 1)
       IN  calls' = [calls EXCEPT ![c] =
                        [NoCall EXCEPT !.op = "saveJob", !.pc = "set",
                                       !.jobKey = job.job_key,
                                       !.existed = IndexOf(jobs, job.job_key) # 0,
                                       !.data = <<job>>,
                                       !.store = Put(jobs, job)]]
    /\ now' = now + 2
    /\ started' = started + 1
    /\ UNCHANGED <<jobs, history>>
    /\ UNCHANGED <<urlVars, formVars, detected, tabVars, pageVars>>

\* deleteJob(jobKey) up to its return or to the await of set
DeleteJob(c, jobKey) ==
    /\ Free(c)
    /\ LET r == deleteJob(jobs, jobKey)
       IN  calls' = [calls EXCEPT ![c] =
                        [NoCall EXCEPT !.op = "deleteJob",
                                       !.pc = IF r.set = <<>> THEN "done" ELSE "set",
                                       !.jobKey = jobKey,
                                       !.existed = IndexOf(jobs, jobKey) # 0,
                                       !.store = IF r.set = <<>> THEN <<>> ELSE r.set[1],
                                       !.removed = r.returns]]
    /\ history' = [history EXCEPT !.deleted = @ \cup {jobKey}]
    /\ started' = started + 1
    /\ UNCHANGED <<jobs, now>>
    /\ UNCHANGED <<urlVars, formVars, detected, tabVars, pageVars>>

\* updateJobStatus(jobKey, status) up to its return or to the call of saveJob
UpdateJobStatus(c, jobKey, status) ==
    /\ Free(c)
    /\ LET data == updateJobStatus(getJob(jobs, jobKey), status, now)
       IN  /\ calls' = [calls EXCEPT ![c] =
                          [NoCall EXCEPT !.op = "updateJobStatus",
                                         !.pc = IF data = <<>> THEN "done" ELSE "saveJob",
                                         !.jobKey = jobKey,
                                         !.existed = IndexOf(jobs, jobKey) # 0,
                                         !.data = data]]
           /\ now' = IF data = <<>> THEN now ELSE now + 2
    /\ started' = started + 1
    /\ UNCHANGED <<jobs, history>>
    /\ UNCHANGED <<urlVars, formVars, detected, tabVars, pageVars>>

\* updateLastSeen(jobKey) up to its return or to the call of saveJob
UpdateLastSeen(c, jobKey) ==
    /\ Free(c)
    /\ LET data == updateLastSeen(getJob(jobs, jobKey), now)
       IN  /\ calls' = [calls EXCEPT ![c] =
                          [NoCall EXCEPT !.op = "updateLastSeen",
                                         !.pc = IF data = <<>> THEN "done" ELSE "saveJob",
                                         !.jobKey = jobKey,
                                         !.existed = IndexOf(jobs, jobKey) # 0,
                                         !.data = data]]
           /\ now' = IF data = <<>> THEN now ELSE now + 1
    /\ started' = started + 1
    /\ UNCHANGED <<jobs, history>>
    /\ UNCHANGED <<urlVars, formVars, detected, tabVars, pageVars>>

\* handleEditSubmit of the dashboard up to its return or to the call of
\* saveJob
HandleEditSubmit(c, jobKey, status) ==
    /\ Free(c)
    /\ LET data == handleEditSubmit(getJob(jobs, jobKey), EditedTitle, status, now)
       IN  /\ calls' = [calls EXCEPT ![c] =
                          [NoCall EXCEPT !.op = "handleEditSubmit",
                                         !.pc = IF data = <<>> THEN "done" ELSE "saveJob",
                                         !.jobKey = jobKey,
                                         !.existed = IndexOf(jobs, jobKey) # 0,
                                         !.data = data]]
           /\ now' = IF data = <<>> THEN now ELSE now + 1
    /\ started' = started + 1
    /\ UNCHANGED <<jobs, history>>
    /\ UNCHANGED <<urlVars, formVars, detected, tabVars, pageVars>>

\* The saveJob call that ends updateJobStatus, updateLastSeen and
\* handleEditSubmit, up to the await of chrome.storage.local.set
SaveJobOfUpdate(c) ==
    /\ calls[c].pc = "saveJob"
    /\ LET job == Stamped(calls[c].data[1], now)
       IN  calls' = [calls EXCEPT ![c].pc = "set",
                                  ![c].data = <<job>>,
                                  ![c].store = Put(jobs, job)]
    /\ now' = now + 1
    /\ UNCHANGED <<jobs, started, history>>
    /\ UNCHANGED <<urlVars, formVars, detected, tabVars, pageVars>>

\* await chrome.storage.local.set({ [STORAGE_KEY]: jobs }) and the return
StorageSet(c) ==
    /\ calls[c].pc = "set"
    /\ jobs' = calls[c].store
    /\ calls' = [calls EXCEPT ![c].pc = "done",
                              ![c].wrote = TRUE,
                              ![c].returned = calls[c].data]
    /\ history' = IF calls[c].op = "saveJob"
                  THEN [history EXCEPT !.saved = @ \cup {calls[c].jobKey}]
                  ELSE history
    /\ UNCHANGED <<now, started>>
    /\ UNCHANGED <<urlVars, formVars, detected, tabVars, pageVars>>

\* getJob(jobKey)
GetJob(c, jobKey) ==
    /\ Free(c)
    /\ calls' = [calls EXCEPT ![c] =
                    [NoCall EXCEPT !.op = "getJob", !.pc = "done",
                                   !.jobKey = jobKey,
                                   !.existed = IndexOf(jobs, jobKey) # 0,
                                   !.returned = getJob(jobs, jobKey)]]
    /\ started' = started + 1
    /\ UNCHANGED <<jobs, now, history>>
    /\ UNCHANGED <<urlVars, formVars, detected, tabVars, pageVars>>

\* findJobByURL(url)
FindJobByURL(c, u) ==
    /\ Free(c)
    /\ calls' = [calls EXCEPT ![c] =
                    [NoCall EXCEPT !.op = "findJobByURL", !.pc = "done",
                                   !.existed = \E i \in 1..Len(jobs) :
                                       jobs[i].canonical_url = canonicalizeURL(u).value,
                                   !.returned = findJobByURL(jobs, u)]]
    /\ started' = started + 1
    /\ UNCHANGED <<jobs, now, history>>
    /\ UNCHANGED <<urlVars, formVars, detected, tabVars, pageVars>>

NextStore ==
    \E c \in Contexts :
        \/ \E u \in Postings, status \in FormStatuses : SaveJob(c, u, status)
        \/ \E jobKey \in PostingKeys : DeleteJob(c, jobKey)
        \/ \E jobKey \in PostingKeys, status \in FormStatuses :
              UpdateJobStatus(c, jobKey, status)
        \/ \E jobKey \in PostingKeys : UpdateLastSeen(c, jobKey)
        \/ \E jobKey \in PostingKeys, status \in FormStatuses :
              HandleEditSubmit(c, jobKey, status)
        \/ SaveJobOfUpdate(c)
        \/ StorageSet(c)
        \/ \E jobKey \in PostingKeys : GetJob(c, jobKey)
        \/ \E u \in Postings \cup Texts : FindJobByURL(c, u)

SpecStore == Init /\ [][NextStore]_vars

----------------------------------------------------------------------------
(* background.js: the toolbar icon of a tab                                *)
(*                                                                         *)
(* chrome.tabs.onUpdated starts one handleTabUpdate run per completed      *)
(* load and does not wait for it; the runs of one tab interleave at their  *)
(* awaits.  The icon is named by the status it was generated for.          *)

\* Most loads the tab completes in one run
MaxLoads == 2

\* Pages the tab loads
TabUrls ==
    Postings
    \cup { UrlString(<<"b","o","a","r","d","s",".","g","r","e","e","n","h","o","u","s","e",".","i","o">>, <<"/","a","c","m","e","/","j","o","b","s","/","4","5","2","1">>,
                     << <<<<"u","t","m","_","s","o","u","r","c","e">>, <<"l","i","n","k","e","d","i","n">>>> >>),
           UrlString(<<"E","x","a","m","p","l","e",".","c","o","m">>, <<"/","c","a","r","e","e","r","s","/","4","2">>, <<>>) }

\* The store after one capture of a posting at time 1, or empty
TrackedStores ==
    {<<>>} \cup
    {<<Stamped(NewJobData(u, status, 1), 2)>> :
        u \in Postings, status \in FormStatuses}

InitIcon ==
    /\ UrlIdle
    /\ jobs \in TrackedStores
    /\ now = 3
    /\ currentTab = NoString
    /\ existingJob = <<>>
    /\ popup = "closed"
    /\ jobData = <<>>
    /\ snapshot = <<>>
    /\ outcome = "none"
    /\ saves = 0
    /\ ServicesIdle

\* chrome.tabs.onUpdated with changeInfo.status === 'complete': the
\* listener calls handleTabUpdate(tabId, tab.url) and returns
TabUpdated(h, u) ==
    /\ loads < MaxLoads
    /\ handlers[h].pc \in {"idle", "done"}
    /\ \A g \in Slots : g < h => handlers[g].pc \notin {"idle", "done"}
    /\ tab' = u
    /\ handlers' = [handlers EXCEPT ![h] =
                       [NoHandler EXCEPT !.pc = "findJobByURL", !.url = u]]
    /\ loads' = loads + 1
    /\ UNCHANGED <<jobs, now, action>>
    /\ UNCHANGED <<urlVars, formVars, detected, storeVars, pageVars>>

\* const job = await StorageService.findJobByURL(url); with no job the
\* default icon is set and the badge cleared
FindTrackedJob(h) ==
    /\ handlers[h].pc = "findJobByURL"
    /\ LET job == findJobByURL(jobs, handlers[h].url)
       IN  IF job = <<>>
           THEN /\ action' = [action EXCEPT !.icon = "default", !.badge = ""]
                /\ handlers' = [handlers EXCEPT ![h].pc = "done"]
           ELSE /\ handlers' = [handlers EXCEPT ![h].pc = "getJob",
                                                ![h].job = job]
                /\ UNCHANGED action
    /\ UNCHANGED <<jobs, now, tab, loads>>
    /\ UNCHANGED <<urlVars, formVars, detected, storeVars, pageVars>>

\* updateLastSeen(job.job_key): getJob and the job data for saveJob
LastSeenGetJob(h) ==
    /\ handlers[h].pc = "getJob"
    /\ LET data == updateLastSeen(getJob(jobs, handlers[h].job[1].job_key), now)
       IN  /\ handlers' = [handlers EXCEPT
                             ![h].pc = IF data = <<>> THEN "setIcon" ELSE "saveJob",
                             ![h].data = data]
           /\ now' = IF data = <<>> THEN now ELSE now + 1
    /\ UNCHANGED <<jobs, tab, action, loads>>
    /\ UNCHANGED <<urlVars, formVars, detected, storeVars, pageVars>>

\* updateLastSeen: saveJob up to the await of chrome.storage.local.set
LastSeenSaveJob(h) ==
    /\ handlers[h].pc = "saveJob"
    /\ LET job == Stamped(handlers[h].data[1], now)
       IN  handlers' = [handlers EXCEPT ![h].pc = "set",
                                        ![h].store = Put(jobs, job)]
    /\ now' = now + 1
    /\ UNCHANGED <<jobs, tab, action, loads>>
    /\ UNCHANGED <<urlVars, formVars, detected, storeVars, pageVars>>

\* updateLastSeen: await chrome.storage.local.set
LastSeenSet(h) ==
    /\ handlers[h].pc = "set"
    /\ jobs' = handlers[h].store
    /\ handlers' = [handlers EXCEPT ![h].pc = "setIcon", ![h].store = <<>>]
    /\ UNCHANGED <<now, tab, action, loads>>
    /\ UNCHANGED <<urlVars, formVars, detected, storeVars, pageVars>>

\* await updateIconForStatus(job.status, tabId): chrome.action.setIcon
SetIcon(h) ==
    /\ handlers[h].pc = "setIcon"
    /\ action' = [action EXCEPT !.icon = handlers[h].job[1].status]
    /\ handlers' = [handlers EXCEPT ![h].pc = "setBadgeText"]
    /\ UNCHANGED <<jobs, now, tab, loads>>
    /\ UNCHANGED <<urlVars, formVars, detected, storeVars, pageVars>>

\* chrome.action.setBadgeText with the check mark
SetBadgeText(h) ==
    /\ handlers[h].pc = "setBadgeText"
    /\ action' = [action EXCEPT !.badge = "check"]
    /\ handlers' = [handlers EXCEPT ![h].pc = "setBadgeBackgroundColor"]
    /\ UNCHANGED <<jobs, now, tab, loads>>
    /\ UNCHANGED <<urlVars, formVars, detected, storeVars, pageVars>>

\* chrome.action.setBadgeBackgroundColor after await getSettings()
\* (the showMarker message that follows goes to the content script and
\* leaves the toolbar button as it is)
SetBadgeBackgroundColor(h) ==
    /\ handlers[h].pc = "setBadgeBackgroundColor"
    /\ action' = [action EXCEPT !.color = handlers[h].job[1].status]
    /\ handlers' = [handlers EXCEPT ![h].pc = "done"]
    /\ UNCHANGED <<jobs, now, tab, loads>>
    /\ UNCHANGED <<urlVars, formVars, detected, storeVars, pageVars>>

NextIcon ==
    \E h \in Slots :
        \/ \E u \in TabUrls : TabUpdated(h, u)
        \/ FindTrackedJob(h)
        \/ LastSeenGetJob(h)
        \/ LastSeenSaveJob(h)
        \/ LastSeenSet(h)
        \/ SetIcon(h)
        \/ SetBadgeText(h)
        \/ SetBadgeBackgroundColor(h)

SpecIcon == InitIcon /\ [][NextIcon]_vars

----------------------------------------------------------------------------
(* detector.js: the content script of one job page                         *)
(*                                                                         *)
(* init and the listeners run to their next await and resume later; runs   *)
(* of different events interleave at the awaits.  The store is written by  *)
(* the popup (a capture of the page) and by the dashboard (a delete).      *)

\* window.location.href of the page
LocationHref ==
    UrlString(<<"b","o","a","r","d","s",".","g","r","e","e","n","h","o","u","s","e",".","i","o">>, <<"/","a","c","m","e","/","j","o","b","s","/","4","5","2","1">>, <<>>)

Themes == {"light", "dark"}

\* const existingBadge = document.getElementById('job-tracker-status-badge');
\* if (existingBadge) existingBadge.remove();
RemoveExistingBadge(doc) ==
    [doc EXCEPT !.badges = IF @ = <<>> THEN <<>> ELSE Tail(@)]

\* const trackBtn = document.getElementById('job-tracker-float-btn');
\* if (trackBtn) trackBtn.remove();
RemoveTrackBtn(doc) == [doc EXCEPT !.floatBtn = FALSE]

\* showTrackButton(): one button is appended unless one exists
showTrackButton(doc) == [doc EXCEPT !.floatBtn = TRUE]

\* showCornerMarker(job) from document.createElement to
\* document.body.appendChild(badge)
AppendBadge(doc, job, theme) ==
    [doc EXCEPT !.badges = Append(@, [status |-> job.status, theme |-> theme])]

\* The run the next event starts
NextRun == events + 1

\* showCornerMarker(job) up to the await of StorageService.getSettings
ShowCornerMarker(r, kind, doc, job) ==
    /\ document' = RemoveExistingBadge(doc)
    /\ running' = [running EXCEPT ![r] = [kind |-> kind, pc |-> "getSettings",
                                          job |-> <<job>>]]

\* init at page load, up to the await of StorageService.findJobByURL
ContentInit ==
    /\ events = 0
    /\ running' = [running EXCEPT ![NextRun] = [NoRun EXCEPT !.kind = "init",
                                                             !.pc = "findJobByURL"]]
    /\ events' = events + 1
    /\ UNCHANGED <<jobs, now, document, settings>>
    /\ UNCHANGED <<urlVars, formVars, detected, storeVars, tabVars>>

\* The visibilitychange listener when the page becomes visible, up to the
\* await of StorageService.findJobByURL
VisibilityChange ==
    /\ events \in 1..(MaxEvents - 1)
    /\ running' = [running EXCEPT ![NextRun] =
                      [NoRun EXCEPT !.kind = "visibilitychange",
                                    !.pc = "findJobByURL"]]
    /\ events' = events + 1
    /\ UNCHANGED <<jobs, now, document, settings>>
    /\ UNCHANGED <<urlVars, formVars, detected, storeVars, tabVars>>

\* The popup saves the page with the given status and sends jobUpdated; the
\* onMessage listener runs up to the call of StorageService.findJobByURL
JobUpdated(status) ==
    /\ events \in 1..(MaxEvents - 1)
    /\ jobs' = Put(jobs, Stamped(NewJobData(LocationHref, status, now), now + 1))
    /\ now' = now + 2
    /\ document' = RemoveExistingBadge(document)
    /\ running' = [running EXCEPT ![NextRun] =
                      [NoRun EXCEPT !.kind = "jobUpdated",
                                    !.pc = "findJobByURL"]]
    /\ events' = events + 1
    /\ UNCHANGED settings
    /\ UNCHANGED <<urlVars, formVars, detected, storeVars, tabVars>>

\* handleTabUpdate of the background script has found the page's record
\* and sends showMarker with it; the onMessage listener runs up to the
\* await of getSettings in showCornerMarker
ShowMarker ==
    /\ events \in 1..(MaxEvents - 1)
    /\ findJobByURL(jobs, LocationHref) # <<>>
    /\ ShowCornerMarker(NextRun, "showMarker",
                        RemoveTrackBtn(RemoveExistingBadge(document)),
                        findJobByURL(jobs, LocationHref)[1])
    /\ events' = events + 1
    /\ UNCHANGED <<jobs, now, settings>>
    /\ UNCHANGED <<urlVars, formVars, detected, storeVars, tabVars>>

\* The theme is switched and themeChanged is sent; the onMessage listener
\* sets the theme of the badge it finds
ThemeChanged(theme) ==
    /\ events \in 1..(MaxEvents - 1)
    /\ theme # settings
    /\ settings' = theme
    /\ document' = [document EXCEPT !.badges =
                       IF @ = <<>> THEN <<>>
                       ELSE <<[@[1] EXCEPT !.theme = theme]>> \o Tail(@)]
    /\ events' = events + 1
    /\ UNCHANGED <<jobs, now, running>>
    /\ UNCHANGED <<urlVars, formVars, detected, storeVars, tabVars>>

\* The record of the page is deleted in the dashboard
DashboardDelete ==
    /\ events \in 1..(MaxEvents - 1)
    /\ deleteJob(jobs, PostingKey(LocationHref)).returns
    /\ jobs' = deleteJob(jobs, PostingKey(LocationHref)).set[1]
    /\ events' = events + 1
    /\ UNCHANGED <<now, document, settings, running>>
    /\ UNCHANGED <<urlVars, formVars, detected, storeVars, tabVars>>

\* StorageService.findJobByURL resolves in run r
FoundJob(r) ==
    /\ running[r].pc = "findJobByURL"
    /\ LET job == findJobByURL(jobs, LocationHref)
       IN  IF job = <<>>
           THEN /\ document' = IF running[r].kind = "init"
                               THEN showTrackButton(document)
                               ELSE document
                /\ running' = [running EXCEPT ![r].pc = "done"]
           ELSE IF running[r].kind = "init"
           THEN /\ running' = [running EXCEPT ![r].pc = "updateLastSeen",
                                              ![r].job = job]
                /\ UNCHANGED document
           ELSE ShowCornerMarker(r, running[r].kind, document, job[1])
    /\ UNCHANGED <<jobs, now, settings, events>>
    /\ UNCHANGED <<urlVars, formVars, detected, storeVars, tabVars>>

\* StorageService.updateLastSeen resolves in init, which goes on to
\* showCornerMarker(job) with the record it had found
LastSeenUpdated(r) ==
    /\ running[r].pc = "updateLastSeen"
    /\ LET data == updateLastSeen(getJob(jobs, running[r].job[1].job_key), now)
       IN  /\ jobs' = IF data = <<>> THEN jobs
                      ELSE Put(jobs, Stamped(data[1], now + 1))
           /\ now' = IF data = <<>> THEN now ELSE now + 2
    /\ ShowCornerMarker(r, "init", document, running[r].job[1])
    /\ UNCHANGED <<settings, events>>
    /\ UNCHANGED <<urlVars, formVars, detected, storeVars, tabVars>>

\* StorageService.getSettings resolves in showCornerMarker, which builds
\* the badge and appends it
GotSettings(r) ==
    /\ running[r].pc = "getSettings"
    /\ document' = AppendBadge(document, running[r].job[1], settings)
    /\ running' = [running EXCEPT ![r].pc = "done"]
    /\ UNCHANGED <<jobs, now, settings, events>>
    /\ UNCHANGED <<urlVars, formVars, detected, storeVars, tabVars>>

NextPage ==
    \/ ContentInit
    \/ VisibilityChange
    \/ \E status \in FormStatuses : JobUpdated(status)
    \/ ShowMarker
    \/ \E theme \in Themes : ThemeChanged(theme)
    \/ DashboardDelete
    \/ \E r \in Runs : FoundJob(r)
    \/ \E r \in Runs : LastSeenUpdated(r)
    \/ \E r \in Runs : GotSettings(r)

\* The page of a posting that is tracked or not when it is loaded
InitPage ==
    /\ UrlIdle
    /\ jobs \in { <<>>, <<Stamped(NewJobData(LocationHref, "applied", 1), 2)>> }
    /\ now = 3
    /\ currentTab = NoString
    /\ existingJob = <<>>
    /\ popup = "closed"
    /\ jobData = <<>>
    /\ snapshot = <<>>
    /\ outcome = "none"
    /\ saves = 0
    /\ ServicesIdle

SpecPage == InitPage /\ [][NextPage]_vars

----------------------------------------------------------------------------
(* Properties of canonicalizeURL (checked under SpecCanon)                 *)

\* C1. Idempotence: for every string u that parses as a URL,
\* canonicalizeURL(canonicalizeURL(u)) equals canonicalizeURL(u).
C1_Idempotence ==
    (canon.called /\ url.ok) => canon.twice = canon.of_url

\* C2. Tracking-parameter invariance: appending deny-listed parameters to
\* the query of a parseable URL, one or several, in any order, leaves
\* canonicalizeURL(u) unchanged.
C2_TrackingInvariance ==
    (canon.called /\ edits = "tracking") => canon.of_variant = canon.of_url

\* Two different deny-listed parameters were appended to a query that
\* holds a parameter canonicalization keeps
C2_Witness ==
    /\ canon.called
    /\ edits = "tracking"
    /\ Len(variant.query) = Len(url.query) + 2
    /\ variant.query[Len(variant.query)][1]
          # variant.query[Len(variant.query) - 1][1]
    /\ canon.of_url.value.query # <<>>
    /\ canon.of_variant = canon.of_url

\* The parameters of q whose name the sort's comparison does not tell from
\* the given name (those of that name, that is), in their order in q
Named(q, name) == SelectSeq(q, LAMBDA p : localeCompare(p[1], name) = 0)

\* q and r list the parameters of every name in the same relative order
SameNamedInOrder(q, r) ==
    \A i \in 1..Len(q) : Named(q, q[i][1]) = Named(r, q[i][1])

\* C3 as stated. Order-independence: every permutation of all of u's query
\* parameters, parameters that repeat a name with different values
\* included, canonicalizes to the same string as u.
C3_OrderIndependence ==
    (canon.called /\ edits = "permute") => canon.of_variant = canon.of_url

\* C3 as amended. Every permutation of u's query parameters that keeps the
\* parameters whose names compare equal (those of one name) in their
\* relative order canonicalizes to the same string as u.
C3_OrderIndependenceUpToRepeats ==
    (canon.called /\ edits = "permute"
        /\ SameNamedInOrder(url.query, variant.query))
    => canon.of_variant = canon.of_url

\* A query that repeats a name with two values was permuted, the repeats
\* kept in order, and the canonical query holds all three parameters
C3_Witness ==
    /\ canon.called
    /\ edits = "permute"
    /\ variant.query # url.query
    /\ SameNamedInOrder(url.query, variant.query)
    /\ \E i, j \in 1..Len(url.query) :
          /\ i < j
          /\ url.query[i][1] = url.query[j][1]
          /\ url.query[i][2] # url.query[j][2]
    /\ Len(canon.of_url.value.query) = 3
    /\ canon.of_variant = canon.of_url

\* C9. canonicalizeURL is total: for an input string that fails to parse as
\* a URL it returns the input unchanged and throws nothing to its caller.
C9_TotalOnParseFailure ==
    (canon.called /\ ~url.ok) => canon.of_url = Return(url)

\* canonicalizeURL returned for the string "not a url"
C9_Witness ==
    /\ canon.called
    /\ ~url.ok
    /\ url.text = <<"n","o","t"," ","a"," ","u","r","l">>
    /\ ~canon.of_url.threw
    /\ canon.of_url.value = url

----------------------------------------------------------------------------
(* Properties of generateJobKey (checked under SpecKey)                    *)

GreenhousePosting ==
    UrlString(<<"b","o","a","r","d","s",".","g","r","e","e","n","h","o","u","s","e",".","i","o">>, <<"/","a","c","m","e","/","j","o","b","s","/","4","5","2","1">>,
              << <<<<"g","h","_","j","i","d">>, <<"4","5","2","1">>>> >>)

\* C4. Key stability under tracking noise: adding deny-listed parameters to
\* u does not change generateJobKey(u, m), whether a platform ID is
\* extracted or the hash fallback is used; the Greenhouse posting 4521 has
\* the key greenhouse_4521 with and without &utm_source=linkedin.
C4_KeyStableUnderTracking ==
    (keys.called /\ edits = "tracking")
    => /\ keys.of_variant = keys.of_url
       /\ ~keys.of_url.threw
       /\ url = GreenhousePosting
            => keys.of_variant.value = <<"g","r","e","e","n","h","o","u","s","e","_","4","5","2","1">>

\* generateJobKey ran on the Greenhouse posting and on the same URL with
\* &utm_source=linkedin
C4_Witness ==
    /\ keys.called
    /\ edits = "tracking"
    /\ url = GreenhousePosting
    /\ variant.query = Append(url.query, <<<<"u","t","m","_","s","o","u","r","c","e">>, <<"l","i","n","k","e","d","i","n">>>>)
    /\ keys.of_url = Return(<<"g","r","e","e","n","h","o","u","s","e","_","4","5","2","1">>)
    /\ keys.of_variant = Return(<<"g","r","e","e","n","h","o","u","s","e","_","4","5","2","1">>)

\* C5. Key determinism and metadata independence: the same (u, m) gives
\* the same key, and for a URL from which a platform ID is extracted the
\* key is the same for any two metadata values.
C5_MetadataIndependence ==
    keys.called
    => /\ variant = url => keys.of_variant = keys.of_url
       /\ extractJobId(url) # <<>>
            => /\ ~keys.of_url.threw
               /\ keys.of_metadata2 = keys.of_url

\* generateJobKey ran twice on a platform URL with different titles
C5_Witness ==
    /\ keys.called
    /\ extractJobId(url) # <<>>
    /\ keys.metadata2.title # keys.metadata.title
    /\ keys.metadata.title # <<>>
    /\ keys.metadata2.title # <<>>
    /\ keys.of_metadata2 = keys.of_url

\* The hash fallback decided both keys, for metadata differing in one field
HashFallbackTwice ==
    /\ keys.called
    /\ url.ok
    /\ extractJobId(url) = <<>>
    /\ keys.metadata2 # keys.metadata

\* C6 as stated. Hash-fallback sensitivity: with no platform ID extracted,
\* any change of the title or of the company changes the key.
C6_AnyChangeChangesKey ==
    HashFallbackTwice => keys.of_metadata2 # keys.of_url

\* C6 as amended. With no platform ID extracted, a change of the title or
\* of the company that is more than a change of letter case changes the
\* key.
C6_ChangeBeyondCaseChangesKey ==
    (HashFallbackTwice
        /\ <<toLowerCase(keys.metadata2.title),
             toLowerCase(keys.metadata2.company)>>
           # <<toLowerCase(keys.metadata.title),
               toLowerCase(keys.metadata.company)>>)
    => /\ ~keys.of_url.threw
       /\ ~keys.of_metadata2.threw
       /\ keys.of_metadata2 # keys.of_url

\* The hash fallback ran with the company Acme and with no company
C6_Witness ==
    /\ HashFallbackTwice
    /\ keys.metadata.company = <<"A","c","m","e">>
    /\ keys.metadata2.company = <<>>
    /\ keys.metadata.title = <<"E","n","g","i","n","e","e","r">>
    /\ keys.of_metadata2 # keys.of_url

\* The platform blocks in the order the claim gives them
C8_TableOrder(hostname, pathname, params) ==
    << Greenhouse(hostname, pathname, params),
       Lever(hostname, pathname, params),
       Workday(hostname, pathname, params),
       LinkedIn(hostname, pathname, params),
       Indeed(hostname, pathname, params),
       SmartRecruiters(hostname, pathname, params),
       Ashby(hostname, pathname, params) >>

\* C8. Platform first-match-wins: the rules are tried in the order
\* greenhouse, lever, workday, linkedin, indeed, smartrecruiters, ashby; the
\* key is the ID of the first platform in that order whose rule yields a
\* non-empty ID, and a platform that matches the hostname but yields no ID
\* does not stop later platforms from being tried.
C8_FirstMatchWins ==
    (keys.called /\ url.ok)
    => LET ids == C8_TableOrder(toLowerCase(url.hostname), url.pathname,
                                url.query)
       IN  \A i \in 1..Len(ids) :
              (ids[i] # <<>> /\ \A j \in 1..(i - 1) : ids[j] = <<>>)
              => keys.of_url = Return(ids[i])

\* A hostname that matches Greenhouse and Lever, with a path from which
\* both rules extract an ID: the key is the Greenhouse one
C8_Witness ==
    /\ keys.called
    /\ url.hostname = <<"g","r","e","e","n","h","o","u","s","e",".","l","e","v","e","r",".","c","o">>
    /\ Greenhouse(url.hostname, url.pathname, url.query) = <<"g","r","e","e","n","h","o","u","s","e","_","4","5","2","1">>
    /\ Lever(url.hostname, url.pathname, url.query) = <<"l","e","v","e","r","_","4","5","2","1">>
    /\ keys.of_url = Return(<<"g","r","e","e","n","h","o","u","s","e","_","4","5","2","1">>)

----------------------------------------------------------------------------
(* Properties of the popup capture (checked under Spec)                    *)

LeverPosting ==
    UrlString(<<"j","o","b","s",".","l","e","v","e","r",".","c","o">>, <<"/","a","c","m","e","/","a","b","c","d","-","1","2","3","4","-","e","f","5","6">>, <<>>)

\* C7. End-to-end capture on Lever: capturing
\* https://jobs.lever.co/acme/abcd-1234-ef56 from the popup with title
\* "Engineer" and company "Acme" stores a record with job_key
\* lever_abcd-1234-ef56, source lever and the canonicalized URL as
\* canonical_url.
C7_LeverCapture ==
    \A i \in 1..Len(jobs) :
        (/\ jobs[i].original_url = LeverPosting
         /\ jobs[i].title = <<"E","n","g","i","n","e","e","r">>
         /\ jobs[i].company = <<"A","c","m","e">>)
        => /\ jobs[i].job_key = <<"l","e","v","e","r","_","a","b","c","d","-","1","2","3","4","-","e","f","5","6">>
           /\ jobs[i].source = <<"l","e","v","e","r">>
           /\ jobs[i].canonical_url = canonicalizeURL(LeverPosting).value

\* C10. Capture never hard-fails because of an unusual URL: a form
\* submission with company and title filled in, on a page whose URL does
\* not parse, does not end in the error alert.
C10_CaptureNeverHardFails ==
    (popup = "form" /\ ~currentTab.ok) => outcome # "error"


----------------------------------------------------------------------------
(* Properties of detectSource (checked under SpecSource)                   *)

\* The hostname fragments that stand for each platform tag
SourceFragments ==
    { <<<<"l","i","n","k","e","d","i","n">>, <<"l","i","n","k","e","d","i","n",".","c","o","m">>>>,
      <<<<"g","r","e","e","n","h","o","u","s","e">>, <<"g","r","e","e","n","h","o","u","s","e">>>>,
      <<<<"g","r","e","e","n","h","o","u","s","e">>, <<"g","r","n","h",".","s","e">>>>,
      <<<<"l","e","v","e","r">>, <<"l","e","v","e","r",".","c","o">>>>,
      <<<<"w","o","r","k","d","a","y">>, <<"w","o","r","k","d","a","y">>>>,
      <<<<"i","n","d","e","e","d">>, <<"i","n","d","e","e","d",".","c","o","m">>>>,
      <<<<"s","m","a","r","t","r","e","c","r","u","i","t","e","r","s">>, <<"s","m","a","r","t","r","e","c","r","u","i","t","e","r","s",".","c","o","m">>>>,
      <<<<"a","s","h","b","y">>, <<"a","s","h","b","y","h","q",".","c","o","m">>>>,
      <<<<"b","a","m","b","o","o","h","r">>, <<"b","a","m","b","o","o","h","r",".","c","o","m">>>>,
      <<<<"p","a","y","c","o","m">>, <<"p","a","y","c","o","m","o","n","l","i","n","e",".","n","e","t">>>>,
      <<<<"i","c","i","m","s">>, <<"i","c","i","m","s",".","c","o","m">>>> }

\* The platform tags whose fragment occurs in the hostname of u
MatchedTags(u) ==
    {f[1] : f \in {g \in SourceFragments :
                      includes(toLowerCase(u.hostname), g[2])}}

\* C11. detectSource never throws and returns the tag of a matched platform,
\* or "manual" when no platform hostname matches or the URL fails to parse;
\* it returns "manual" for https://example.com/careers/42 and "linkedin" for
\* https://www.linkedin.com/jobs/view/98765.
C11_DetectSource ==
    detected.called =>
        /\ ~detected.result.threw
        /\ ~url.ok => detected.result.value = <<"m","a","n","u","a","l">>
        /\ (url.ok /\ MatchedTags(url) = {}) => detected.result.value = <<"m","a","n","u","a","l">>
        /\ (url.ok /\ MatchedTags(url) # {}) => detected.result.value \in MatchedTags(url)
        /\ url = UrlString(<<"e","x","a","m","p","l","e",".","c","o","m">>, <<"/","c","a","r","e","e","r","s","/","4","2">>, <<>>)
              => detected.result.value = <<"m","a","n","u","a","l">>
        /\ url = UrlString(<<"w","w","w",".","l","i","n","k","e","d","i","n",".","c","o","m">>, <<"/","j","o","b","s","/","v","i","e","w","/","9","8","7","6","5">>, <<>>)
              => detected.result.value = <<"l","i","n","k","e","d","i","n">>

C11_Witness ==
    /\ detected.called
    /\ ~url.ok
    /\ detected.result.value = <<"m","a","n","u","a","l">>

----------------------------------------------------------------------------
(* Properties of the store under popup saves (checked under Spec)          *)

\* C12. No duplicate canonical URL: in every reachable store state no two
\* stored records have the same canonical_url.
C12_NoDuplicateCanonicalUrl ==
    \A i \in 1..Len(jobs) : \A j \in 1..Len(jobs) :
        jobs[i].canonical_url = jobs[j].canonical_url => i = j

\* URLs that differ from u only in deny-listed tracking parameters, in the
\* case of the hostname or in one trailing slash of the path
RevisitUrls(u) ==
    IF ~u.ok THEN {u}
    ELSE {u}
         \cup {[u EXCEPT !.query = Append(@, pair)] : pair \in NoisePairs}
         \cup {[u EXCEPT !.query = RemoveTrackingParams(@, TRACKING_PARAMS)]}
         \cup {[u EXCEPT !.hostname = toLowerCase(@)]}
         \cup {[u EXCEPT !.pathname = Append(@, "/")]}
         \cup (IF Len(u.pathname) > 1 /\ endsWith(u.pathname, <<"/">>)
               THEN {[u EXCEPT !.pathname = sliceDropLast(@)]}
               ELSE {})

\* C13. Revisit detection: once a popup capture from URL u has stored a
\* record, findJobByURL(u') returns that record for every URL u' that
\* differs from u only in tracking parameters, hostname case or one
\* trailing slash.
C13_RevisitFindsRecord ==
    popup = "saved" =>
        \A u2 \in RevisitUrls(currentTab) :
            findJobByURL(jobs, u2) = <<jobData[1]>>

\* The stored record of a job key, before and after a step
Before(jobKey) == jobs[IndexOf(jobs, jobKey)]
After(jobKey) == jobs'[IndexOf(jobs', jobKey)]
Kept(jobKey) == IndexOf(jobs, jobKey) # 0 /\ IndexOf(jobs', jobKey) # 0
JobKeys == {jobs[i].job_key : i \in 1..Len(jobs)}

\* C14. created_at is preserved across updates: while a record exists, no
\* step changes its created_at.
C14_CreatedAtPreserved ==
    [][\A jobKey \in JobKeys :
          Kept(jobKey) =>
              After(jobKey).created_at = Before(jobKey).created_at]_vars

\* C15. applied_at is set once: after it has been assigned, no later save
\* gives it another value.
C15_AppliedAtSetOnce ==
    [][\A jobKey \in JobKeys :
          (Kept(jobKey) /\ Before(jobKey).applied_at # 0
                        /\ After(jobKey).applied_at # 0)
              => After(jobKey).applied_at = Before(jobKey).applied_at]_vars

\* C16. applied_at is never cleared: a record that has applied_at set still
\* has it set after any later save to its key.
C16_AppliedAtNeverCleared ==
    [][\A jobKey \in JobKeys :
          (Kept(jobKey) /\ Before(jobKey).applied_at # 0)
              => After(jobKey).applied_at # 0]_vars

----------------------------------------------------------------------------
(* Properties of concurrent StorageService calls (checked under SpecStore) *)

\* No StorageService call is in progress
Quiescent == \A c \in Contexts : calls[c].pc \in {"idle", "done"}

\* C17. Atomic commit per store call: the final store is the result of the
\* calls in some serial order; so, once all calls have finished, every job
\* key that a saveJob call stored and that no deleteJob call was given has
\* its record in the store, also when the saves ran at the same time.
C17_ConcurrentSavesBothStored ==
    Quiescent =>
        \A jobKey \in history.saved \ history.deleted :
            IndexOf(jobs, jobKey) # 0

\* A record without the two fields on which last-write-wins is accepted
Core(job) == [job EXCEPT !.updated_at = 0, !.last_seen_at = 0]

\* C18. Concurrent writers to one job key commute on all fields other than
\* updated_at and last_seen_at: whatever a concurrent save has stored in the
\* meantime, the write that ends an updateLastSeen call changes no other
\* field of a stored record, so the order of completion does not show in
\* those fields.
C18_LastSeenCommutesWithSave ==
    [][\A c \in Contexts :
          (calls[c].op = "updateLastSeen" /\ calls[c].pc = "set"
              /\ calls'[c].pc = "done")
          => \A jobKey \in JobKeys :
                Kept(jobKey) => Core(After(jobKey)) = Core(Before(jobKey))]_vars

\* C19. Operations on an absent key report absence and change nothing:
\* getJob and findJobByURL return null when no record matches; deleteJob
\* returns true exactly when a record for the key existed and was removed,
\* and returns false without writing otherwise; updateJobStatus and
\* updateLastSeen on an absent key return null without writing.
C19_AbsentKeyReported ==
    \A c \in Contexts :
        calls[c].pc = "done" =>
            /\ (calls[c].op \in {"getJob", "findJobByURL"} /\ ~calls[c].existed)
                  => calls[c].returned = <<>>
            /\ calls[c].op = "deleteJob"
                  => /\ calls[c].removed = calls[c].existed
                     /\ calls[c].wrote = calls[c].existed
            /\ (calls[c].op \in {"updateJobStatus", "updateLastSeen"}
                    /\ ~calls[c].existed)
                  => /\ calls[c].returned = <<>>
                     /\ ~calls[c].wrote

C19_Witness ==
    /\ jobs # <<>>
    /\ \E c \in Contexts :
          /\ calls[c].pc = "done"
          /\ calls[c].op = "deleteJob"
          /\ ~calls[c].existed
          /\ ~calls[c].removed
          /\ ~calls[c].wrote

----------------------------------------------------------------------------
(* Properties of the toolbar icon (checked under SpecIcon)                 *)

\* C20. The toolbar icon follows the current page: once every
\* handleTabUpdate run started for the tab has finished, the icon and badge
\* correspond to the URL of the most recently completed load: the status
\* icon and the check badge if that URL matches a tracked job, the default
\* icon and an empty badge otherwise.
C20_IconFollowsPage ==
    (loads > 0 /\ \A h \in Slots : handlers[h].pc \in {"idle", "done"}) =>
        LET job == findJobByURL(jobs, tab)
        IN  IF job = <<>>
            THEN action.icon = "default" /\ action.badge = ""
            ELSE action.icon = job[1].status /\ action.badge = "check"

----------------------------------------------------------------------------
(* Further properties of canonicalizeURL (checked under SpecCanon)         *)

\* C24. Trailing slash: canonicalizeURL removes exactly one trailing '/'
\* from the path when the path ends with '/' and is not exactly '/'; a path
\* equal to '/' and a path without a trailing '/' are left unchanged, and
\* the letter case of the path is preserved.
C24_OneTrailingSlash ==
    (canon.called /\ url.ok) =>
        LET path == url.pathname
            last == path[Len(path)]
        IN  canon.of_url.value.pathname =
                IF last = "/" /\ Len(path) > 1
                THEN SubSeq(path, 1, Len(path) - 1)
                ELSE path

C24_Witness ==
    /\ canon.called
    /\ url.ok
    /\ url.pathname = <<"/","a","/","/">>
    /\ canon.of_url.value.pathname = <<"/","a","/">>

----------------------------------------------------------------------------
(* Further properties of generateJobKey (checked under SpecKey)            *)

\* C22. Hash fallback: whenever no platform rule yields an ID for a
\* parseable URL (also when the hostname matches a platform), generateJobKey
\* does not fail and returns "hash_" followed by 16 lowercase hex digits,
\* the prefix of the SHA-256 digest of lowercase(hostname|pathname|title|
\* company) taken from the canonical URL, a missing title or company being
\* the empty string.
C22_HashFallback ==
    (keys.called /\ url.ok /\ extractJobId(url) = <<>>) =>
        LET canonicalUrl == canonicalizeURL(url).value
            hashInput == toLowerCase(canonicalUrl.hostname \o <<"|">>
                                     \o canonicalUrl.pathname \o <<"|">>
                                     \o keys.metadata.title \o <<"|">>
                                     \o keys.metadata.company)
        IN  /\ ~keys.of_url.threw
            /\ keys.of_url.value = <<"h","a","s","h","_">> \o hashString(hashInput)
            /\ Len(keys.digits) = 16
            /\ \A i \in 1..Len(keys.digits) :
                  keys.digits[i] \in Digits \cup {"a","b","c","d","e","f"}

C22_Witness ==
    /\ keys.called
    /\ url.ok
    /\ url.hostname = <<"j","o","b","s",".","l","e","v","e","r",".","c","o">>
    /\ url.pathname = <<"/","a","c","m","e","/","a","b","c","d","-","1","2","3","4","-","e","f","5","6">>
    /\ keys.metadata.title = <<>>
    /\ ~keys.of_url.threw
    /\ SubSeq(keys.of_url.value, 1, 5) = <<"h","a","s","h","_">>

\* C27. Canonical equality implies key equality: for parseable URLs u, u'
\* with canonicalizeURL(u) = canonicalizeURL(u') and all metadata m,
\* generateJobKey(u, m) = generateJobKey(u', m); in particular
\* generateJobKey(u, m) = generateJobKey(canonicalizeURL(u), m).
C27_CanonicalEqualityGivesKeyEquality ==
    (keys.called /\ url.ok) =>
        /\ canonicalizeURL(url) = canonicalizeURL(variant)
              => keys.of_url = keys.of_variant
        /\ keys.of_canonical = keys.of_url


----------------------------------------------------------------------------
(* detectSource against extractJobId (checked under SpecSource)            *)

\* Some block of extractJobId tests for a fragment of this hostname
Recognized(hostname) ==
    \E f \in ResolverFragments : includes(hostname, f)

\* The platform prefix of a key "<platform>_<id>"
PlatformOf(jobId) ==
    SubSeq(jobId, 1, (CHOOSE i \in 1..Len(jobId) : /\ jobId[i] = "_"
                                                  /\ \A j \in 1..(i - 1) : jobId[j] # "_") - 1)

\* C23 (as stated). detectSource and the key resolver use the same hostname
\* table: for every URL for which generateJobKey returns a platform-derived
\* key "{p}_{id}", detectSource returns the tag p, and every hostname that
\* detectSource maps to a platform tag is one the resolver's table
\* recognizes.
C23_SameHostnameTable ==
    (detected.called /\ url.ok) =>
        LET tag == detected.result.value
            jobId == extractJobId(url)
        IN  /\ jobId # <<>> => tag = PlatformOf(jobId)
            /\ tag # <<"m","a","n","u","a","l">> => Recognized(toLowerCase(url.hostname))

\* C23 (amended). The resolver's hostname table is contained in that of
\* detectSource, which also knows bamboohr.com, paycomonline.net and
\* icims.com: every hostname a block of extractJobId tests for gets a
\* platform tag, a platform-derived key "{p}_{id}" comes only from such a
\* hostname and p is the tag of a fragment the hostname contains, and
\* detectSource returns p whenever the hostname contains the fragment of one
\* platform only (with several, each function lets its own order decide).
C23_ResolverTableWithinSourceTable ==
    (detected.called /\ url.ok) =>
        LET tag == detected.result.value
            jobId == extractJobId(url)
            hostname == toLowerCase(url.hostname)
        IN  /\ Recognized(hostname) => tag # <<"m","a","n","u","a","l">>
            /\ jobId # <<>> =>
                  /\ Recognized(hostname)
                  /\ PlatformOf(jobId) \in MatchedTags(url)
                  /\ Cardinality(MatchedTags(url)) = 1 => tag = PlatformOf(jobId)

C23_Witness ==
    /\ detected.called
    /\ url.ok
    /\ url.hostname = <<"j","o","b","s",".","a","s","h","b","y","h","q",".","c","o","m">>
    /\ extractJobId(url) = <<"a","s","h","b","y","_","4","5","2","1">>
    /\ detected.result.value = <<"a","s","h","b","y">>

----------------------------------------------------------------------------
(* Further properties of the store under concurrent calls (SpecStore)      *)

\* C21. Records are created only by capture: a job key absent from the
\* store becomes present only through the write of a saveJob call made for
\* that key by a capture; no updateLastSeen or updateJobStatus, also one
\* that read the record before a deleteJob removed it and writes after it,
\* puts a record for the key back into the store.
C21_CreatedOnlyByCapture ==
    [][\A jobKey \in PostingKeys :
          (IndexOf(jobs, jobKey) = 0 /\ IndexOf(jobs', jobKey) # 0)
          => \E c \in Contexts : /\ calls[c].pc = "set"
                                 /\ calls'[c].pc = "done"
                                 /\ calls[c].op = "saveJob"
                                 /\ calls[c].jobKey = jobKey]_vars

\* C25. Stored-record consistency: in every reachable store state each
\* record is the one entry stored under its own job_key and its
\* canonical_url is canonicalizeURL(original_url); no save, dashboard edit,
\* updateJobStatus or updateLastSeen changes canonical_url independently of
\* original_url, in the store or in the job data it is about to write.
C25_StoredRecordConsistency ==
    /\ \A i \in 1..Len(jobs) :
          /\ jobs[i].canonical_url = canonicalizeURL(jobs[i].original_url).value
          /\ getJob(jobs, jobs[i].job_key) = <<jobs[i]>>
          /\ \A j \in 1..Len(jobs) : jobs[j].job_key = jobs[i].job_key => j = i
    /\ \A c \in Contexts :
          calls[c].data # <<>> =>
              /\ calls[c].data[1].canonical_url
                    = canonicalizeURL(calls[c].data[1].original_url).value
              /\ calls[c].data[1].job_key = calls[c].jobKey

C25_Witness ==
    /\ \E i \in 1..Len(jobs) :
          /\ jobs[i].canonical_url # jobs[i].original_url
          /\ jobs[i].title = EditedTitle
    /\ \E c \in Contexts : /\ calls[c].op = "handleEditSubmit"
                           /\ calls[c].wrote
    /\ \E c \in Contexts : /\ calls[c].op = "updateLastSeen"
                           /\ calls[c].wrote

----------------------------------------------------------------------------
(* Further properties of the store under popup saves (checked under Spec)  *)

\* C26. A capture never destroys another posting's record: when the popup
\* saves a page for which findJobByURL found no stored record, the write
\* adds one record and leaves every previously stored record unchanged; and
\* no popup save changes a record whose canonical_url differs from the
\* canonical URL of the captured page.
C26_CaptureKeepsOtherRecords ==
    [][(popup = "set" /\ popup' = "saved") =>
          /\ existingJob = <<>> =>
                /\ Len(jobs') = Len(jobs) + 1
                /\ \A jobKey \in JobKeys :
                      Kept(jobKey) /\ After(jobKey) = Before(jobKey)
          /\ \A jobKey \in JobKeys :
                (Kept(jobKey) /\ After(jobKey) # Before(jobKey))
                => Before(jobKey).canonical_url
                      = canonicalizeURL(currentTab).value]_vars

----------------------------------------------------------------------------
(* Properties of the content script (checked under SpecPage)               *)

\* C28. At most one status badge: under every interleaving of the content
\* script's handlers (init, visibilitychange, jobUpdated, showMarker), the
\* page never contains more than one element with id
\* job-tracker-status-badge.
C28_AtMostOneBadge == Len(document.badges) <= 1

\* C29. Track button and status badge are mutually exclusive: after any
\* sequence of content-script events the page never shows both the floating
\* 'Track this job' button and the status badge; after an untracked page is
\* tracked from the popup the button is gone once the badge appears.
C29_ButtonOrBadge == ~(document.floatBtn /\ document.badges # <<>>)
============================================================================
